---- MODULE Spec2Model ----
(***************************************************************************)
(* A model of iii-cli, the version-aware binary dispatcher: the            *)
(* update-and-install pipeline (src/src/update.rs, download.rs, state.rs,  *)
(* main.rs, github.rs, platform.rs, registry.rs, advisory.rs, exec.rs).    *)
(*                                                                         *)
(* The module holds its specifications over one set of variables:          *)
(*   SpecFS   the temp-file-then-rename writers at system-call granularity *)
(*            (atomic_write_binary, AppState::save), one or two            *)
(*            invocations, crashes at any step;                            *)
(*   SpecSum  verify_checksum as a function of the sidecar text and the    *)
(*            downloaded payload;                                          *)
(*   Spec     invocations of the tool (dispatch, update) run one after     *)
(*            another against a file system, a state file, a clock and a   *)
(*            release server, each handler cut at its await points;        *)
(*   SpecOverlap  dispatches that run at the same time;                    *)
(*   SpecState    state.rs on its own: load, save, the update-check clock; *)
(*   SpecCalls    single calls of functions of their arguments only        *)
(*            (check_advisories, data_dir and bin_dir, the mapping of a    *)
(*            response in fetch_latest_release).                           *)
(***************************************************************************)
EXTENDS Integers, Sequences, FiniteSets, TLC

VARIABLES
    \* ---- SpecFS: paths, inodes and the writers' positions
    fsPath,     \* path name -> inode number, 0 when the path does not exist
    fsData,     \* inode -> bytes
    fsExec,     \* inode -> has mode 0755
    wr,         \* writer -> [pc, ino, off, data, runs]
    fsKind,     \* "binary" (atomic_write_binary) or "state" (AppState::save)
    overlap,    \* may a second invocation start while one is in flight
    \* ---- SpecSum: one call of verify_checksum
    sumText,    \* the body of the checksum sidecar, a sequence of characters
    sumPayload, \* the downloaded archive bytes
    sumAsset,   \* the asset name
    sumResult,  \* [kind |-> "pending"], or the Result the call returned
    \* ---- Spec: the world
    platform,   \* platform::current_target() of the running build
    binFile,    \* binary name -> the file at platform::binary_path(name)
    onPath,     \* the directories of PATH in order: the binary names each holds
    stateFile,  \* the file at platform::state_file_path()
    release,    \* binary name -> the version of its repository's latest release
    now,        \* the wall clock, in hours
    \* ---- Spec: the running invocation
    pc,         \* where the invocation stands
    inv,        \* its command line: [kind, command, no_update_check]
    mem,        \* its in-memory AppState (app_state)
    job,        \* the update_binary / self_update / auto-install in progress
    tasks,      \* handle_update: the binaries still to update
    results,    \* handle_update: the results so far
    bg,         \* the background check: [queue, updates, ms, result]
    obs,        \* what the invocation has done so far (for the properties)
    budget,     \* [runs, faults, publishes, ticks, deletes] used so far
    \* ---- SpecOverlap: dispatches running at the same time
    ov,         \* [procs: invocation -> [pc, mem, bin, found, runs], seen: names persisted so far]
    \* ---- SpecState: state.rs on its own
    sx,         \* [st, file, clock, ops, before, res]: an AppState, its file and the clock
    \* ---- SpecCalls: one call of a function that depends on its arguments only
    call        \* [fn, arg, ret]: the function called, its arguments, what it returned

fsVars == <<fsPath, fsData, fsExec, wr, fsKind, overlap>>
sumVars == <<sumText, sumPayload, sumAsset, sumResult>>

worldVars == <<platform, binFile, onPath, stateFile, release, now>>
invVars == <<pc, inv, mem, job, tasks, results, bg, obs, budget>>
mainVars == <<worldVars, invVars>>

vars == <<fsVars, sumVars, mainVars, ov, sx, call>>

notFs == <<sumVars, mainVars, ov, sx, call>>
notSum == <<fsVars, mainVars, ov, sx, call>>
notMain == <<fsVars, sumVars, ov, sx, call>>
notOv == <<fsVars, sumVars, sx, call>>
notSx == <<fsVars, sumVars, mainVars, ov, call>>
notCall == <<fsVars, sumVars, mainVars, ov, sx>>

None == "none"

(***************************************************************************)
(* SpecSum: download.rs verify_checksum                                    *)
(***************************************************************************)

MaxTextLen == 4     \* longest checksum sidecar body drawn

\* Characters of a sidecar body: hex digits in both cases and white space.
Chars == {"a", "b", "A", "B", " ", "\n"}
Whitespace == {" ", "\n", "\t", "\r"}

Payloads == {"P1", "P2", "P3"}
AssetNames == {"iii-console-x86_64-unknown-linux-musl.tar.gz",
               "iii-cli-x86_64-unknown-linux-musl.tar.gz"}

\* download.rs:99-101 format!("{:x}", Sha256(data)): lower-case hex. SHA-256
\* is taken to be collision free: distinct payloads have distinct digests
\* (two hex digits stand for the sixty-four).
Sha256Hex(p) ==
    CASE p = "P1" -> <<"a", "b">>
      [] p = "P2" -> <<"b", "a">>
      [] p = "P3" -> <<"b", "b">>

\* download.rs:97 to_lowercase
LowerChar(c) == CASE c = "A" -> "a" [] c = "B" -> "b" [] OTHER -> c
ToLowercaseIdentity(s) == s
ToLowercase(s) == [k \in 1..Len(s) |-> LowerChar(s[k])]

\* download.rs:93-95 split_whitespace().next(): leading white space is
\* skipped, the token runs to the next white space or the end; << >> stands
\* for None (no token).
RECURSIVE SkipWhitespace(_)
SkipWhitespace(s) ==
    IF s = << >> THEN << >>
    ELSE IF Head(s) \in Whitespace THEN SkipWhitespace(Tail(s)) ELSE s

RECURSIVE TakeToken(_)
TakeToken(s) ==
    IF s = << >> THEN << >>
    ELSE IF Head(s) \in Whitespace THEN << >> ELSE <<Head(s)>> \o TakeToken(Tail(s))

FirstToken(text) == TakeToken(SkipWhitespace(text))

\* A verification that lets every payload through.
VerifyChecksumAcceptAll(fetched, text, data, asset) == [kind |-> "Ok"]

\* download.rs:80-112 verify_checksum(client, checksum_url, data, asset_name);
\* fetched is whether the GET of the sidecar returned a body.
VerifyChecksum(fetched, text, data, asset) ==
    IF ~fetched THEN [kind |-> "Network"]
    ELSE IF FirstToken(text) = << >> THEN [kind |-> "Failed", msg |-> "Empty checksum file"]
    ELSE LET expected == ToLowercase(FirstToken(text))
             actual == Sha256Hex(data)
         IN IF actual # expected
            THEN [kind |-> "ChecksumMismatch", asset |-> asset,
                  expected |-> expected, actual |-> actual]
            ELSE [kind |-> "Ok"]

Texts == UNION {[1..n -> Chars] : n \in 0..MaxTextLen}

SumIdle ==
    /\ sumText = << >>
    /\ sumPayload = "P1"
    /\ sumAsset = "none"
    /\ sumResult = [kind |-> "idle"]

SumInit ==
    /\ sumText \in Texts
    /\ sumPayload \in Payloads
    /\ sumAsset \in AssetNames
    /\ sumResult = [kind |-> "pending"]

SumVerify ==
    /\ sumResult.kind = "pending"
    /\ \E fetched \in BOOLEAN :
        sumResult' = VerifyChecksum(fetched, sumText, sumPayload, sumAsset)
    /\ UNCHANGED <<sumText, sumPayload, sumAsset, notSum>>

SumNext == SumVerify

(***************************************************************************)
(* SpecFS: download.rs atomic_write_binary, state.rs AppState::save        *)
(***************************************************************************)

\* Bounds of the file-level model.
MaxRuns == 2        \* invocations each writer may start
MaxInodes == 4      \* inode numbers available

Writers == {"w1", "w2"}
Inodes == 1..MaxInodes
HoleByte == 0

\* The complete artifact found at the target before any write, and the
\* complete artifacts an invocation may write (two bytes each, written one
\* byte per write call).
OldContent == <<7, 8>>
NewContents == {<<1, 2>>, <<3, 4>>}

\* download.rs:211 target_path.with_extension("tmp"), state.rs:76
\* path.with_extension("json.tmp"): a fixed sibling name, the same for every
\* invocation that writes the same target.
TempPathInPlace(kind) == "target"
TempPath(kind) == "temp"

InFlight(w) == wr[w].pc \in {"create", "write", "close", "chmod", "rename"}

Referenced(paths, writers, i) ==
    \/ \E n \in DOMAIN paths : paths[n] = i
    \/ \E w \in DOMAIN writers : writers[w].ino = i

\* An inode no path and no open handle refers to is gone: its bytes are dropped.
Reclaim(paths, writers, data) ==
    [i \in Inodes |-> IF Referenced(paths, writers, i) THEN data[i] ELSE << >>]

ReclaimExec(paths, writers, ex) ==
    [i \in Inodes |-> IF Referenced(paths, writers, i) THEN ex[i] ELSE FALSE]

FreeInode == CHOOSE i \in Inodes :
    /\ ~Referenced(fsPath, wr, i)
    /\ \A j \in Inodes : ~Referenced(fsPath, wr, j) => i <= j

\* Writing byte b at offset off (0-based) of a file: a write past the end
\* leaves a hole of zero bytes.
PadTo(s, n) == s \o [k \in 1..(n - Len(s)) |-> HoleByte]

WriteAt(s, off, b) ==
    IF off < Len(s)
    THEN [s EXCEPT ![off + 1] = b]
    ELSE Append(PadTo(s, off), b)

FsIdle ==
    /\ fsKind = "state"
    /\ overlap = FALSE
    /\ fsPath = [target |-> 0, temp |-> 0]
    /\ fsData = [i \in Inodes |-> << >>]
    /\ fsExec = [i \in Inodes |-> FALSE]
    /\ wr = [w \in Writers |-> [pc |-> "idle", ino |-> 0, off |-> 0, data |-> << >>, runs |-> 0]]

FsInit ==
    /\ fsKind \in {"binary", "state"}
    /\ overlap \in BOOLEAN
    /\ \E hasOld \in BOOLEAN :
        /\ fsPath = [target |-> IF hasOld THEN 1 ELSE 0, temp |-> 0]
        /\ fsData = [i \in Inodes |-> IF hasOld /\ i = 1 THEN OldContent ELSE << >>]
    /\ fsExec = [i \in Inodes |-> FALSE]
    /\ wr = [w \in Writers |-> [pc |-> "idle", ino |-> 0, off |-> 0, data |-> << >>, runs |-> 0]]

\* An invocation reaches atomic_write_binary(data, target) / save(path).
\* download.rs:207-209, state.rs:69-73: the parent directory is created.
FsStart(w) ==
    /\ ~InFlight(w)
    /\ wr[w].runs < MaxRuns
    /\ overlap \/ \A v \in Writers : ~InFlight(v)
    /\ \E d \in NewContents :
        wr' = [wr EXCEPT ![w] = [pc |-> "create", ino |-> 0, off |-> 0, data |-> d,
                                 runs |-> @.runs + 1]]
    /\ UNCHANGED <<fsPath, fsData, fsExec, fsKind, overlap, notFs>>

\* download.rs:214 File::create(&temp_path); state.rs:79 fs::write opens the
\* temp path the same way: an existing file is opened and truncated, a
\* missing one is created.
FsCreate(w) ==
    /\ wr[w].pc = "create"
    /\ LET t == TempPath(fsKind)
           i == IF fsPath[t] # 0 THEN fsPath[t] ELSE FreeInode
       IN /\ fsPath' = [fsPath EXCEPT ![t] = i]
          /\ fsData' = [fsData EXCEPT ![i] = << >>]
          /\ fsExec' = IF fsPath[t] # 0 THEN fsExec ELSE [fsExec EXCEPT ![i] = FALSE]
          /\ wr' = [wr EXCEPT ![w].pc = "write", ![w].ino = i, ![w].off = 0]
    /\ UNCHANGED <<fsKind, overlap, notFs>>

\* download.rs:215 write_all / state.rs:79 fs::write: one write call, at the
\* handle's own offset.
FsWrite(w) ==
    /\ wr[w].pc = "write"
    /\ wr[w].off < Len(wr[w].data)
    /\ fsData' = [fsData EXCEPT ![wr[w].ino] = WriteAt(@, wr[w].off, wr[w].data[wr[w].off + 1])]
    /\ wr' = [wr EXCEPT ![w].off = @ + 1,
                        ![w].pc = IF wr[w].off + 1 = Len(wr[w].data) THEN "close" ELSE "write"]
    /\ UNCHANGED <<fsPath, fsExec, fsKind, overlap, notFs>>

\* A write call fails (disk full, I/O error): the error is returned by `?`
\* and the temp file stays as it is.
FsWriteFail(w) ==
    /\ wr[w].pc = "write"
    /\ LET ws == [wr EXCEPT ![w].pc = "failed", ![w].ino = 0]
       IN /\ wr' = ws
          /\ fsData' = Reclaim(fsPath, ws, fsData)
          /\ fsExec' = ReclaimExec(fsPath, ws, fsExec)
    /\ UNCHANGED <<fsPath, fsKind, overlap, notFs>>

\* download.rs:216-217 flush and drop(file); state.rs:79 fs::write returns.
FsClose(w) ==
    /\ wr[w].pc = "close"
    /\ LET ws == [wr EXCEPT ![w].pc = IF fsKind = "binary" THEN "chmod" ELSE "rename",
                            ![w].ino = 0]
       IN /\ wr' = ws
          /\ fsData' = Reclaim(fsPath, ws, fsData)
          /\ fsExec' = ReclaimExec(fsPath, ws, fsExec)
    /\ UNCHANGED <<fsPath, fsKind, overlap, notFs>>

\* download.rs:220-224 set_permissions(&temp_path, 0o755): by path; fails
\* with `?` when the temp path is gone.
FsChmod(w) ==
    /\ wr[w].pc = "chmod"
    /\ LET t == TempPath(fsKind)
       IN IF fsPath[t] = 0
          THEN /\ wr' = [wr EXCEPT ![w].pc = "failed"]
               /\ UNCHANGED fsExec
          ELSE /\ wr' = [wr EXCEPT ![w].pc = "rename"]
               /\ fsExec' = [fsExec EXCEPT ![fsPath[t]] = TRUE]
    /\ UNCHANGED <<fsPath, fsData, fsKind, overlap, notFs>>

\* A failed rename that leaves the temp file where it is.
RemoveTempSkipped(paths, t) == paths

\* download.rs:228, state.rs:84 `let _ = std::fs::remove_file(&temp_path)`
RemoveTemp(paths, t) == [paths EXCEPT ![t] = 0]

\* download.rs:227-230, state.rs:82-86 rename(&temp_path, target): the
\* target name is switched to the temp file's inode in one step. When the
\* rename fails the temp file is removed (best effort) and the error returned.
FsRename(w) ==
    /\ wr[w].pc = "rename"
    /\ LET t == TempPath(fsKind)
       IN IF fsPath[t] = 0
          THEN /\ wr' = [wr EXCEPT ![w].pc = "renamefailed"]
               /\ UNCHANGED <<fsPath, fsData, fsExec>>
          ELSE LET ps == IF t = "target" THEN fsPath
                         ELSE [fsPath EXCEPT !["target"] = fsPath[t], ![t] = 0]
               IN /\ fsPath' = ps
                  /\ fsData' = Reclaim(ps, wr, fsData)
                  /\ fsExec' = ReclaimExec(ps, wr, fsExec)
                  /\ wr' = [wr EXCEPT ![w].pc = "done"]
    /\ UNCHANGED <<fsKind, overlap, notFs>>

\* The rename itself fails (the target is a directory, a permission error):
\* download.rs:228, state.rs:84 remove_file(&temp_path), then Err.
FsRenameFail(w) ==
    /\ wr[w].pc = "rename"
    /\ LET t == TempPath(fsKind)
           ps == RemoveTemp(fsPath, t)
       IN /\ fsPath' = ps
          /\ fsData' = Reclaim(ps, wr, fsData)
          /\ fsExec' = ReclaimExec(ps, wr, fsExec)
    /\ wr' = [wr EXCEPT ![w].pc = "renamefailed"]
    /\ UNCHANGED <<fsKind, overlap, notFs>>

\* The process is interrupted at any step: its handle is closed, nothing
\* else is undone.
FsCrash(w) ==
    /\ InFlight(w)
    /\ LET ws == [wr EXCEPT ![w].pc = "crashed", ![w].ino = 0]
       IN /\ wr' = ws
          /\ fsData' = Reclaim(fsPath, ws, fsData)
          /\ fsExec' = ReclaimExec(fsPath, ws, fsExec)
    /\ UNCHANGED <<fsPath, fsKind, overlap, notFs>>

FsNext ==
    \E w \in Writers :
        \/ FsStart(w)
        \/ FsCreate(w)
        \/ FsWrite(w)
        \/ FsWriteFail(w)
        \/ FsClose(w)
        \/ FsChmod(w)
        \/ FsRename(w)
        \/ FsRenameFail(w)
        \/ FsCrash(w)

(***************************************************************************)
(* Spec: registry.rs                                                       *)
(***************************************************************************)

CommonTargets == {"aarch64-apple-darwin", "x86_64-apple-darwin",
                  "x86_64-unknown-linux-gnu", "x86_64-unknown-linux-musl",
                  "aarch64-unknown-linux-gnu"}
WindowsTargets == {"x86_64-pc-windows-msvc", "aarch64-pc-windows-msvc"}

SELF_SPEC ==
    [name |-> "iii-cli", repo |-> "iii-hq/iii-cli", has_checksum |-> TRUE,
     supported_targets |-> CommonTargets \cup WindowsTargets,
     commands |-> << >>]

REGISTRY == <<
    [name |-> "iii-console", repo |-> "iii-hq/console", has_checksum |-> TRUE,
     supported_targets |-> CommonTargets \cup WindowsTargets,
     commands |-> <<[cli_command |-> "console", binary_subcommand |-> None]>>],
    [name |-> "iii-tools", repo |-> "iii-hq/cli-tooling", has_checksum |-> FALSE,
     supported_targets |-> CommonTargets,
     commands |-> <<[cli_command |-> "create", binary_subcommand |-> "create"]>>],
    [name |-> "motia-cli", repo |-> "MotiaDev/motia-cli", has_checksum |-> FALSE,
     supported_targets |-> CommonTargets \cup WindowsTargets \cup {"armv7-unknown-linux-gnueabihf"},
     commands |-> <<[cli_command |-> "motia", binary_subcommand |-> None]>>],
    [name |-> "iii", repo |-> "iii-hq/iii", has_checksum |-> FALSE,
     supported_targets |-> CommonTargets \cup WindowsTargets \cup {"armv7-unknown-linux-gnueabihf"},
     commands |-> <<[cli_command |-> "start", binary_subcommand |-> None]>>] >>

RegistryNames == {REGISTRY[i].name : i \in 1..Len(REGISTRY)}
Bins == RegistryNames \cup {SELF_SPEC.name}

MinOf(S) == CHOOSE x \in S : \A y \in S : x <= y

HasCommand(spec, c) == \E k \in 1..Len(spec.commands) : spec.commands[k].cli_command = c

FirstMapping(spec, c) ==
    spec.commands[MinOf({k \in 1..Len(spec.commands) : spec.commands[k].cli_command = c})]

\* A resolution that passes no subcommand on to the binary.
ResolveCommandNoSubcommand(c) ==
    LET hits == {i \in 1..Len(REGISTRY) : HasCommand(REGISTRY[i], c)}
    IN IF hits = {}
       THEN [ok |-> FALSE, error |-> "UnknownCommand", command |-> c]
       ELSE [ok |-> TRUE, spec |-> REGISTRY[MinOf(hits)], sub |-> None]

\* registry.rs:122-133 resolve_command
ResolveCommand(c) ==
    LET hits == {i \in 1..Len(REGISTRY) : HasCommand(REGISTRY[i], c)}
    IN IF hits = {}
       THEN [ok |-> FALSE, error |-> "UnknownCommand", command |-> c]
       ELSE [ok |-> TRUE, spec |-> REGISTRY[MinOf(hits)],
             sub |-> FirstMapping(REGISTRY[MinOf(hits)], c).binary_subcommand]

\* A resolution that knows binary names only.
ResolveBinaryByNameOnly(c) ==
    LET byName == {i \in 1..Len(REGISTRY) : REGISTRY[i].name = c}
    IN IF byName # {} THEN [ok |-> TRUE, spec |-> REGISTRY[MinOf(byName)]]
       ELSE [ok |-> FALSE, error |-> "UnknownCommand", command |-> c]

\* registry.rs:137-155 resolve_binary_for_update
ResolveBinaryForUpdate(c) ==
    LET byName == {i \in 1..Len(REGISTRY) : REGISTRY[i].name = c}
        byCmd == {i \in 1..Len(REGISTRY) : HasCommand(REGISTRY[i], c)}
    IN IF byName # {} THEN [ok |-> TRUE, spec |-> REGISTRY[MinOf(byName)]]
       ELSE IF byCmd # {} THEN [ok |-> TRUE, spec |-> REGISTRY[MinOf(byCmd)]]
       ELSE [ok |-> FALSE, error |-> "UnknownCommand", command |-> c]

\* A list of all binaries that starts with the dispatcher itself.
AllBinariesWithSelf == <<SELF_SPEC>> \o REGISTRY

\* registry.rs:158-160 all_binaries
AllBinaries == REGISTRY

SpecOf(b) ==
    IF b = SELF_SPEC.name THEN SELF_SPEC
    ELSE REGISTRY[CHOOSE i \in 1..Len(REGISTRY) : REGISTRY[i].name = b]

(***************************************************************************)
(* Spec: platform.rs                                                       *)
(***************************************************************************)

\* platform.rs:10-28 current_target: fixed by the build; the builds drawn.
BuildTargets == {"x86_64-unknown-linux-musl", "x86_64-pc-windows-msvc"}

\* platform.rs:31-37 archive_extension
ArchiveExtensionOf(t) == IF t \in WindowsTargets THEN "zip" ELSE "tar.gz"

\* platform.rs:41-43 asset_name: "{name}-{target}.{ext}", kept as its parts
AssetNameOn(b, t) == <<b, t, ArchiveExtensionOf(t)>>
AssetName(b) == AssetNameOn(b, platform)

\* platform.rs:168-170 checksum_asset_name: "{name}-{target}.sha256"
ChecksumAssetNameOn(b, t) == <<b, t, "sha256">>
ChecksumAssetName(b) == ChecksumAssetNameOn(b, platform)

\* platform.rs:99-116 check_platform_support
CheckPlatformSupport(spec) == platform \in spec.supported_targets

NoFile == [present |-> FALSE]

\* platform.rs:83-90 binary_path(name).exists()
BinaryPathExists(b) == binFile[b].present

\* A search of PATH that keeps the last directory that holds the name.
WhichBinaryLast(b) ==
    LET hits == {i \in DOMAIN onPath : b \in onPath[i]}
    IN IF hits = {} THEN 0 ELSE CHOOSE i \in hits : \A j \in hits : j <= i

\* platform.rs:157-163 which_binary: the first directory of PATH, in
\* order, in which the name exists (its index; 0 for None).
WhichBinary(b) ==
    LET hits == {i \in DOMAIN onPath : b \in onPath[i]}
    IN IF hits = {} THEN 0 ELSE MinOf(hits)

\* platform.rs:139-154 find_existing_binary: the managed bin directory,
\* then PATH.
FindExistingBinary(b) ==
    IF binFile[b].present THEN "managed"
    ELSE IF WhichBinary(b) # 0 THEN "path" ELSE None

\* update.rs:123-126 is_binary_installed
IsBinaryInstalled(b) == BinaryPathExists(b) \/ FindExistingBinary(b) # None

(***************************************************************************)
(* Spec: github.rs                                                         *)
(***************************************************************************)

\* A version is <<major, minor, patch>>; << >> stands for Option::None.
NoVersion == << >>

\* semver::Version's order
VersionLT(a, b) ==
    \/ a[1] < b[1]
    \/ a[1] = b[1] /\ a[2] < b[2]
    \/ a[1] = b[1] /\ a[2] = b[2] /\ a[3] < b[3]
\* A comparison that leaves out equal versions.
VersionGT(a, b) == VersionLT(b, a)
VersionGE(a, b) == ~VersionLT(a, b)

\* A tag is [v_prefix, parts]: "v0.2.4" is [v_prefix |-> TRUE, parts |-> <<0, 2, 4>>].
\* github.rs:102-105 parse_release_version: strip a leading 'v', then
\* Version::parse, which wants exactly three numeric parts.
ParseReleaseVersion(tag) ==
    IF Len(tag.parts) = 3 THEN [ok |-> TRUE, version |-> tag.parts]
    ELSE [ok |-> FALSE, version |-> NoVersion]

\* github.rs:97-99 find_asset
FindAsset(rel, name) == name \in rel.assets

\* A checksum URL for every release that carries the sidecar.
ChecksumUrlIgnoringFlag(b, rel) == FindAsset(rel, ChecksumAssetName(b))

\* main.rs:118-124, update.rs:169-176, 264-270: Some(checksum URL) when the
\* spec has has_checksum and the release has the sidecar asset, else None.
ChecksumUrl(b, rel) == SpecOf(b).has_checksum /\ FindAsset(rel, ChecksumAssetName(b))

\* What the latest release of a repository may look like: every supported
\* target's archive, the checksum sidecars or not, this platform's archive
\* or not, a well formed tag or not.
ReleaseShapes == {"ok", "nosidecar", "noasset", "badtag"}

ReleaseOf(b, v, shape) ==
    [tag |-> [v_prefix |-> TRUE, parts |-> IF shape = "badtag" THEN <<v[1], v[2]>> ELSE v],
     assets |->
        {AssetNameOn(b, t) : t \in
            IF shape = "noasset" THEN SpecOf(b).supported_targets \ {platform}
            ELSE SpecOf(b).supported_targets}
        \cup IF shape = "nosidecar" THEN {}
             ELSE {ChecksumAssetNameOn(b, t) : t \in SpecOf(b).supported_targets}]

\* github.rs:52-82 fetch_latest_release: the request fails, or is answered
\* with a release of one of the shapes.
FetchOutcomes == ReleaseShapes \cup {"fail"}
ScanOutcomes == {"ok", "badtag", "fail", "hang"}

\* github.rs:26 the client's request timeout, in ms
ClientTimeoutMs == 30000
\* the time a request that is answered (or refused) takes, in ms
FastMs == 100

\* A request is answered, fails at once (refused, no route, DNS), or never
\* answers and is ended by the client's timeout.
RequestMs(outcome) == IF outcome = "hang" THEN ClientTimeoutMs ELSE FastMs

(***************************************************************************)
(* Spec: state.rs                                                          *)
(***************************************************************************)

NoCheck == -1
EmptyMap == [n \in {} |-> 0]

\* state.rs:39-41 default_interval
DefaultInterval == 24

\* state.rs:43-51 Default for AppState
DefaultState ==
    [binaries |-> EmptyMap, last_update_check |-> NoCheck,
     update_check_interval_hours |-> DefaultInterval]

\* The JSON document: a version is written as its string, kept as its
\* named parts; every field of AppState is written.
VersionToString(v) == [major |-> v[1], minor |-> v[2], patch |-> v[3]]
\* A parse that forgets the patch number of a version.
VersionFromStringNoPatch(x) == <<x.major, x.minor, 0>>
VersionFromString(x) == <<x.major, x.minor, x.patch>>

\* state.rs:75 serde_json::to_string_pretty(self)
Serialize(st) ==
    [binaries |-> [n \in DOMAIN st.binaries |->
                      [version |-> VersionToString(st.binaries[n].version),
                       installed_at |-> st.binaries[n].installed_at,
                       asset_name |-> st.binaries[n].asset_name]],
     last_update_check |-> st.last_update_check,
     update_check_interval_hours |-> st.update_check_interval_hours]

\* state.rs:62 serde_json::from_str, with the #[serde(default)] of lines 14-23
Deserialize(doc) ==
    [binaries |->
        IF "binaries" \in DOMAIN doc
        THEN [n \in DOMAIN doc.binaries |->
                 [version |-> VersionFromString(doc.binaries[n].version),
                  installed_at |-> doc.binaries[n].installed_at,
                  asset_name |-> doc.binaries[n].asset_name]]
        ELSE EmptyMap,
     last_update_check |->
        IF "last_update_check" \in DOMAIN doc THEN doc.last_update_check ELSE NoCheck,
     update_check_interval_hours |->
        IF "update_check_interval_hours" \in DOMAIN doc
        THEN doc.update_check_interval_hours ELSE DefaultInterval]

NoStateFile == [kind |-> "absent"]
GarbageFile == [kind |-> "garbage"]
FileOf(st) == [kind |-> "file", doc |-> Serialize(st)]

\* A load that takes an unreadable file for an absent one.
LoadLenient(file) ==
    IF file.kind = "file" THEN [ok |-> TRUE, st |-> Deserialize(file.doc)]
    ELSE [ok |-> TRUE, st |-> DefaultState]

\* state.rs:55-64 AppState::load
Load(file) ==
    IF file.kind = "absent" THEN [ok |-> TRUE, st |-> DefaultState]
    ELSE IF file.kind = "garbage" THEN [ok |-> FALSE, st |-> DefaultState]
    ELSE [ok |-> TRUE, st |-> Deserialize(file.doc)]

\* state.rs:67-89 AppState::save; written says whether the write and the
\* rename went through.
Save(st, written, file) == IF written THEN FileOf(st) ELSE file

\* A check that is always due.
IsUpdateCheckDueAlways(st, t) == TRUE

\* state.rs:92-100 is_update_check_due
IsUpdateCheckDue(st, t) ==
    \/ st.last_update_check = NoCheck
    \/ t - st.last_update_check >= st.update_check_interval_hours

\* A record that replaces the whole map by the one new entry.
RecordInstallAlone(st, b, v, asset, t) ==
    [st EXCEPT !.binaries =
        [n \in {b} |-> [version |-> v, installed_at |-> t, asset_name |-> asset]]]

\* state.rs:103-112 record_install
RecordInstall(st, b, v, asset, t) ==
    [st EXCEPT !.binaries =
        [n \in DOMAIN st.binaries \cup {b} |->
            IF n = b THEN [version |-> v, installed_at |-> t, asset_name |-> asset]
            ELSE st.binaries[n]]]

\* state.rs:115-117 installed_version
InstalledVersion(st, b) ==
    IF b \in DOMAIN st.binaries THEN st.binaries[b].version ELSE NoVersion

\* A stamp that is never set.
MarkUpdateCheckedSkipped(st, t) == st

\* state.rs:120-122 mark_update_checked
MarkUpdateChecked(st, t) == [st EXCEPT !.last_update_check = t]

(***************************************************************************)
(* Spec: advisory.rs                                                       *)
(***************************************************************************)

\* An affected_versions string is kept as its operator and the numbers
\* that follow it: "<0.2.5" is [op |-> "<", parts |-> <<0, 2, 5>>].
\* advisory.rs:77 VersionReq::parse: the comparison operators followed by
\* a full version parse; another leading character, or an operator with
\* nothing after it, does not.
ReqOps == {"<", "<=", ">", ">=", "="}
ParseVersionReq(text) ==
    IF text.op \in ReqOps /\ Len(text.parts) = 3
    THEN [ok |-> TRUE, op |-> text.op, version |-> text.parts]
    ELSE [ok |-> FALSE, op |-> "none", version |-> NoVersion]

\* The remote advisory document (advisory.rs:7-8 ADVISORIES_URL): one
\* advisory, for iii-console below 0.2.5.
AdvisoryDoc ==
    <<[id |-> "ADV-2026-001", affected_binary |-> "iii-console",
       affected_versions |-> [op |-> "<", parts |-> <<0, 2, 5>>]]>>

\* advisory.rs:78 semver::VersionReq::matches for one comparator
ReqMatches(req, v) ==
    CASE req.op = "<" -> VersionLT(v, req.version)
      [] req.op = "<=" -> ~VersionLT(req.version, v)
      [] req.op = ">" -> VersionLT(req.version, v)
      [] req.op = ">=" -> ~VersionLT(v, req.version)
      [] req.op = "=" -> v = req.version
      [] OTHER -> FALSE

\* A match on the binary's name alone.
CheckAdvisoriesIgnoringRange(doc, st) ==
    {doc[k].id : k \in {k \in 1..Len(doc) : doc[k].affected_binary \in DOMAIN st.binaries}}

\* advisory.rs:66-95 check_advisories: the ids of the advisories matched
CheckAdvisories(doc, st) ==
    {doc[k].id : k \in {k \in 1..Len(doc) :
        /\ doc[k].affected_binary \in DOMAIN st.binaries
        /\ ParseVersionReq(doc[k].affected_versions).ok
        /\ ReqMatches(ParseVersionReq(doc[k].affected_versions),
                      st.binaries[doc[k].affected_binary].version)}}

(***************************************************************************)
(* Spec: the world and the invocation                                      *)
(***************************************************************************)

\* Bounds of the run.
MaxInvocations == 2     \* invocations of the tool in one behaviour
MaxFaults == 1          \* failed requests, odd releases and failed writes in one behaviour
MaxDeletes == 1         \* files deleted or damaged from outside in one behaviour
MaxPublishes == 1       \* releases published or withdrawn in one behaviour
MaxTicks == 1           \* steps of the clock in one behaviour
\* The binaries whose repository publishes and whose executable is deleted.
EventBins == {"iii-cli", "iii-console"}
TickHours == 24         \* hours the clock advances in one step

\* main.rs:166-169 the background check's timeout, in ms
BackgroundTimeoutMs == 500

FirstVersion == <<0, 2, 4>>
\* update.rs:245 env!("CARGO_PKG_VERSION"): the version of the running build,
\* taken to be the first release.
CARGO_PKG_VERSION == FirstVersion
NextVersionOf(v) == <<v[1], v[2], v[3] + 1>>
PreviousVersionOf(v) == <<v[1], v[2], v[3] - 1>>

\* The command lines drawn.
DispatchCommands == {"console", "create", "foobar"}

NoRelease == [tag |-> [v_prefix |-> FALSE, parts |-> << >>], assets |-> {}]
NoResult == [kind |-> "none"]

NoJob ==
    [caller |-> "none", bin |-> "none", installed |-> FALSE, rel |-> NoRelease,
     latest |-> NoVersion, current |-> NoVersion, checksum |-> FALSE,
     previous |-> NoVersion, bytes |-> "none", steps |-> {}, ret |-> NoResult]

\* path is where the binary to execute was found ("managed", or "path" with
\* dir the index of the PATH directory).
NoInv == [kind |-> "none", command |-> "none", no_update_check |-> FALSE,
          bin |-> "none", sub |-> None, path |-> "none", dir |-> 0]

\* The scan: the recorded binaries still to look at, the updates found, the
\* time spent, the binaries whose release was asked for, those whose
\* request was answered and those whose tag parsed, the updates a timeout
\* threw away, and what
\* run_background_check returned.
NoBg == [todo |-> {}, updates |-> {}, ms |-> 0, asked |-> {}, answered |-> {},
         parsed |-> {}, dropped |-> {}, result |-> "none"]

NoSnap == [mem |-> DefaultState, file |-> NoStateFile, bin |-> NoFile]

\* What the invocation did, as seen from outside; loaded is the state file
\* as it was when the invocation started, fault what went wrong around it
\* during its setup, did the steps of the setup that were carried out, had
\* whether the managed bin directory held the binary when it was looked for,
\* ran what run_binary did, in order.
NewObs ==
    [exit |-> -1, downloads |-> {}, delay |-> 0, notified |-> {},
     advisory |-> "none", warned |-> {}, loaded |-> NoStateFile, pre |-> NoSnap,
     fault |-> "ok", did |-> {}, had |-> FALSE, ran |-> << >>]

\* The archive a release serves is payload P1; a download that arrives
\* damaged or replaced is payload P2. The sidecar of a release holds the
\* digest of P1 followed by the file name.
GenuinePayload == "P1"
CorruptPayload == "P2"
SidecarText == Sha256Hex(GenuinePayload) \o <<" ", "a">>

FileContent(b, rel, bytes) == [present |-> TRUE, bin |-> b, tag |-> rel.tag, bytes |-> bytes]

Finished == pc \in {"exit", "exec"}

Fault(e) == IF e = "ok" THEN 0 ELSE 1

MainIdle ==
    /\ platform = "x86_64-unknown-linux-musl"
    /\ binFile = [b \in Bins |-> NoFile]
    /\ onPath = <<{}, {}>>
    /\ stateFile = NoStateFile
    /\ release = [b \in Bins |-> FirstVersion]
    /\ now = 0
    /\ pc = "idle"
    /\ inv = NoInv
    /\ mem = DefaultState
    /\ job = NoJob
    /\ tasks = << >>
    /\ results = << >>
    /\ bg = NoBg
    /\ obs = NewObs
    /\ budget = [runs |-> 0, faults |-> 0, publishes |-> 0, ticks |-> 0, deletes |-> 0]

\* The PATH of the machine: two directories, with iii-console in neither,
\* in the second only, or in both.
PathLayouts == {<<{}, {}>>, <<{}, {"iii-console"}>>, <<{"iii-console"}, {"iii-console"}>>}

\* A fresh machine: no state file, nothing in the managed bin directory;
\* some binary may already be on the PATH; every repository has a first
\* release.
MainInit ==
    /\ platform \in BuildTargets
    /\ binFile = [b \in Bins |-> NoFile]
    /\ onPath \in PathLayouts
    /\ stateFile = NoStateFile
    /\ release = [b \in Bins |-> FirstVersion]
    /\ now = 0
    /\ pc = "idle"
    /\ inv = NoInv
    /\ mem = DefaultState
    /\ job = NoJob
    /\ tasks = << >>
    /\ results = << >>
    /\ bg = NoBg
    /\ obs = NewObs
    /\ budget = [runs |-> 0, faults |-> 0, publishes |-> 0, ticks |-> 0, deletes |-> 0]

(***************************************************************************)
(* The environment                                                         *)
(***************************************************************************)

\* The clock advances.
Tick ==
    /\ pc = "idle"
    /\ budget.runs < MaxInvocations
    /\ budget.ticks < MaxTicks
    /\ now' = now + TickHours
    /\ budget' = [budget EXCEPT !.ticks = @ + 1]
    /\ UNCHANGED <<platform, binFile, onPath, stateFile, release>>
    /\ UNCHANGED <<pc, inv, mem, job, tasks, results, bg, obs, notMain>>

\* A repository publishes its next release.
PublishRelease(b) ==
    /\ pc = "idle"
    /\ budget.runs < MaxInvocations
    /\ budget.publishes < MaxPublishes
    /\ release' = [release EXCEPT ![b] = NextVersionOf(release[b])]
    /\ budget' = [budget EXCEPT !.publishes = @ + 1]
    /\ UNCHANGED <<platform, binFile, onPath, stateFile, now>>
    /\ UNCHANGED <<pc, inv, mem, job, tasks, results, bg, obs, notMain>>

\* A repository withdraws its latest release: releases/latest answers with
\* the release before it.
WithdrawRelease(b) ==
    /\ pc = "idle"
    /\ budget.runs < MaxInvocations
    /\ budget.publishes < MaxPublishes
    /\ release[b][3] > 0
    /\ release' = [release EXCEPT ![b] = PreviousVersionOf(release[b])]
    /\ budget' = [budget EXCEPT !.publishes = @ + 1]
    /\ UNCHANGED <<platform, binFile, onPath, stateFile, now>>
    /\ UNCHANGED <<pc, inv, mem, job, tasks, results, bg, obs, notMain>>

\* The user deletes an installed executable from the managed bin directory,
\* between two invocations or while a dispatch is about to hand over.
ExternalDelete(b) ==
    /\ pc \in {"idle", "handoff"}
    /\ budget.runs < MaxInvocations
    /\ budget.deletes < MaxDeletes
    /\ binFile[b].present
    /\ binFile' = [binFile EXCEPT ![b] = NoFile]
    /\ budget' = [budget EXCEPT !.deletes = @ + 1]
    /\ UNCHANGED <<platform, onPath, stateFile, release, now>>
    /\ UNCHANGED <<pc, inv, mem, job, tasks, results, bg, obs, notMain>>

\* The state file is damaged: cut short, overwritten with something that
\* is not the JSON of an AppState, or made unreadable. AppState::load
\* (state.rs:55-64) fails on it.
ExternalDamage ==
    /\ pc = "idle"
    /\ budget.runs < MaxInvocations
    /\ budget.deletes < MaxDeletes
    /\ stateFile # GarbageFile
    /\ stateFile' = GarbageFile
    /\ budget' = [budget EXCEPT !.deletes = @ + 1]
    /\ UNCHANGED <<platform, binFile, onPath, release, now>>
    /\ UNCHANGED <<pc, inv, mem, job, tasks, results, bg, obs, notMain>>

(***************************************************************************)
(* main.rs handle_dispatch                                                 *)
(***************************************************************************)

ExitWith(code) ==
    /\ pc' = "exit"
    /\ obs' = [obs EXCEPT !.exit = code]

\* A setup that creates the directories before it checks the platform.
DispatchSetupDirsFirst(c, e) ==
    LET r == ResolveCommand(c)
    IN IF ~r.ok THEN [failed |-> "unknown", did |-> {}]
       ELSE IF e = "nodirs" THEN [failed |-> "nodirs", did |-> {"resolve"}]
       ELSE IF ~CheckPlatformSupport(r.spec)
            THEN [failed |-> "unsupported", did |-> {"resolve", "dirs"}]
       ELSE [failed |-> "ok", did |-> {"resolve", "platform", "dirs"}]

\* main.rs:41-59: resolve_command, check_platform_support, ensure_dirs, in
\* this order, each returning 1 at once when it fails: the step that
\* failed and the steps done before it.
DispatchSetup(c, e) ==
    LET r == ResolveCommand(c)
    IN IF ~r.ok THEN [failed |-> "unknown", did |-> {}]
       ELSE IF ~CheckPlatformSupport(r.spec)
            THEN [failed |-> "unsupported", did |-> {"resolve"}]
       ELSE IF e = "nodirs" THEN [failed |-> "nodirs", did |-> {"resolve", "platform"}]
       ELSE [failed |-> "ok", did |-> {"resolve", "platform", "dirs"}]

\* main.rs:39-99: resolve the command, check the platform, create the
\* directories, load the state, look for the binary; for a binary found
\* nowhere, build the client and request the latest release.
DispatchStart(c, nuc, e) ==
    /\ pc = "idle"
    /\ budget.runs < MaxInvocations
    /\ e \in {"ok", "nodirs", "noclient"}
    /\ budget.faults + Fault(e) <= MaxFaults
    /\ budget' = [budget EXCEPT !.runs = @ + 1, !.faults = @ + Fault(e)]
    /\ LET r == ResolveCommand(c)
           su == DispatchSetup(c, e)
           lr == Load(stateFile)
       IN IF su.failed # "ok"
          THEN /\ e = "ok" \/ su.failed = e
               /\ pc' = "exit"
               /\ obs' = [NewObs EXCEPT !.loaded = stateFile, !.exit = 1,
                                        !.fault = e, !.did = su.did]
               /\ inv' = [NoInv EXCEPT !.kind = "dispatch", !.command = c, !.no_update_check = nuc,
                                       !.bin = IF r.ok THEN r.spec.name ELSE "none",
                                       !.sub = IF r.ok THEN r.sub ELSE None]
               /\ mem' = DefaultState
          ELSE LET found == FindExistingBinary(r.spec.name)
               IN /\ e = "noclient" => found = None
                  /\ mem' = lr.st
                  /\ inv' = [kind |-> "dispatch", command |-> c, no_update_check |-> nuc,
                             bin |-> r.spec.name, sub |-> r.sub,
                             path |-> IF found = None THEN "managed" ELSE found,
                             dir |-> IF found = "path" THEN WhichBinary(r.spec.name) ELSE 0]
                  /\ obs' = [NewObs EXCEPT !.loaded = stateFile,
                                           !.exit = IF e = "noclient" THEN 1 ELSE -1,
                                           !.fault = e, !.did = su.did \cup {"load", "find"},
                                           !.had = binFile[r.spec.name].present]
                  /\ pc' = IF found # None THEN "bg"
                           ELSE IF e = "noclient" THEN "exit" ELSE "d_fetch"
    /\ job' = NoJob
    /\ tasks' = << >>
    /\ results' = << >>
    /\ bg' = NoBg
    /\ UNCHANGED <<worldVars, notMain>>

\* main.rs:96-136: the answer to fetch_latest_release; find the platform's
\* asset and the checksum sidecar, and call download_and_install.
DispatchFetch(o) ==
    /\ pc = "d_fetch"
    /\ o \in FetchOutcomes
    /\ budget.faults + Fault(o) <= MaxFaults
    /\ budget' = [budget EXCEPT !.faults = @ + Fault(o)]
    /\ LET b == inv.bin
           rel == ReleaseOf(b, release[b], o)
       IN IF o = "fail" \/ ~FindAsset(rel, AssetName(b))
          THEN /\ ExitWith(1)
               /\ UNCHANGED job
          ELSE /\ pc' = "dl"
               /\ job' = [NoJob EXCEPT !.caller = "dispatch", !.bin = b, !.rel = rel,
                              !.checksum = ChecksumUrl(b, rel)]
               /\ obs' = [obs EXCEPT !.pre = [mem |-> mem, file |-> stateFile, bin |-> binFile[b]]]
    /\ UNCHANGED <<worldVars, inv, mem, tasks, results, bg, notMain>>

(***************************************************************************)
(* download.rs download_and_install                                        *)
(***************************************************************************)

\* download.rs:21-32: download the asset; with a checksum URL go on to
\* verify, without one warn and go on to extract.
InstallDownload(o) ==
    /\ pc = "dl"
    /\ o \in {"ok", "corrupt", "fail"}
    /\ budget.faults + Fault(o) <= MaxFaults
    /\ budget' = [budget EXCEPT !.faults = @ + Fault(o)]
    /\ obs' = [obs EXCEPT !.downloads = @ \cup {job.bin}]
    /\ IF o = "fail"
       THEN /\ job' = [job EXCEPT !.steps = {"download"}, !.ret = [kind |-> "DownloadFailed"]]
            /\ pc' = "dl_done"
       ELSE /\ job' = [job EXCEPT !.steps = IF job.checksum THEN {"download"}
                                            ELSE {"download", "warn"},
                                  !.bytes = IF o = "ok" THEN GenuinePayload ELSE CorruptPayload]
            /\ pc' = IF job.checksum THEN "sum" ELSE "extract"
    /\ UNCHANGED <<worldVars, inv, mem, tasks, results, bg, notMain>>

\* download.rs:24-25, 80-112: verify_checksum against the sidecar.
InstallVerify(fetched) ==
    /\ pc = "sum"
    /\ fetched \in BOOLEAN
    /\ budget.faults + (IF fetched THEN 0 ELSE 1) <= MaxFaults
    /\ budget' = [budget EXCEPT !.faults = @ + (IF fetched THEN 0 ELSE 1)]
    /\ LET r == VerifyChecksum(fetched, SidecarText, job.bytes, AssetName(job.bin))
       IN IF r.kind = "Ok"
          THEN /\ job' = [job EXCEPT !.steps = @ \cup {"verify"}]
               /\ pc' = "extract"
          ELSE /\ job' = [job EXCEPT !.steps = @ \cup {"verify"}, !.ret = r]
               /\ pc' = "dl_done"
    /\ UNCHANGED <<worldVars, inv, mem, tasks, results, bg, obs, notMain>>

\* download.rs:35-40: extract_binary, then atomic_write_binary to the
\* target path. An archive may fail to unpack or may not hold the binary
\* (download.rs:125-160); the write may fail.
InstallWrite(o) ==
    /\ pc = "extract"
    /\ o \in {"ok", "noextract", "nowrite"}
    /\ budget.faults + Fault(o) <= MaxFaults
    /\ budget' = [budget EXCEPT !.faults = @ + Fault(o)]
    /\ pc' = "dl_done"
    /\ IF o = "ok"
       THEN /\ binFile' = [binFile EXCEPT ![job.bin] = FileContent(job.bin, job.rel, job.bytes)]
            /\ job' = [job EXCEPT !.steps = @ \cup {"extract", "write"}, !.ret = [kind |-> "Ok"]]
       ELSE /\ UNCHANGED binFile
            /\ job' = [job EXCEPT !.steps = @ \cup {"extract"},
                                  !.ret = [kind |-> IF o = "noextract" THEN "ExtractionFailed" ELSE "Io"]]
    /\ UNCHANGED <<platform, onPath, stateFile, release, now>>
    /\ UNCHANGED <<inv, mem, tasks, results, bg, obs, notMain>>

\* main.rs:126-164: download_and_install has returned to handle_dispatch:
\* on an error exit 1, else record the installation and save the state.
DispatchInstalled(written) ==
    /\ pc = "dl_done"
    /\ job.caller = "dispatch"
    /\ written \in BOOLEAN
    /\ IF job.ret.kind # "Ok"
       THEN /\ written
            /\ ExitWith(1)
            /\ UNCHANGED <<mem, stateFile, budget>>
       ELSE LET pv == ParseReleaseVersion(job.rel.tag)
                version == IF pv.ok THEN pv.version ELSE <<0, 0, 0>>
                st == RecordInstall(mem, job.bin, version, AssetName(job.bin), now)
            IN /\ budget.faults + (IF written THEN 0 ELSE 1) <= MaxFaults
               /\ budget' = [budget EXCEPT !.faults = @ + (IF written THEN 0 ELSE 1)]
               /\ mem' = st
               /\ stateFile' = Save(st, written, stateFile)
               /\ pc' = "bg"
               /\ UNCHANGED obs
    /\ UNCHANGED <<platform, binFile, onPath, release, now>>
    /\ UNCHANGED <<inv, job, tasks, results, bg, notMain>>

(***************************************************************************)
(* update.rs run_background_check, check_for_updates                       *)
(***************************************************************************)

\* A background step that ignores the flag.
BackgroundCheckAlways(i) == TRUE

\* main.rs:166 `if !no_update_check`: the flag of cli.rs:14-16 switches the
\* whole background step off.
BackgroundCheckEnabled(i) == ~i.no_update_check

\* main.rs:167-169, update.rs:98-114: skipped with --no-update-check; None
\* when no check is due or no client can be built; else the scan starts.
BgStart(e) ==
    /\ pc = "bg"
    /\ e \in {"ok", "noclient"}
    /\ budget.faults + Fault(e) <= MaxFaults
    /\ IF ~BackgroundCheckEnabled(inv)
       THEN /\ e = "ok"
            /\ bg' = [NoBg EXCEPT !.result = "disabled"]
            /\ pc' = "handoff"
       ELSE IF ~IsUpdateCheckDue(mem, now)
       THEN /\ e = "ok"
            /\ bg' = [NoBg EXCEPT !.result = "notdue"]
            /\ pc' = "handoff"
       ELSE IF e = "noclient"
       THEN /\ bg' = [NoBg EXCEPT !.result = "noclient"]
            /\ pc' = "handoff"
       ELSE /\ bg' = [NoBg EXCEPT !.todo = DOMAIN mem.binaries, !.result = "scanning"]
            /\ pc' = "scan"
    /\ budget' = [budget EXCEPT !.faults = @ + Fault(e)]
    /\ obs' = [obs EXCEPT !.pre = [mem |-> mem, file |-> stateFile, bin |-> NoFile]]
    /\ UNCHANGED <<worldVars, inv, mem, job, tasks, results, notMain>>

\* update.rs:116-119 the scan is cut at the timeout: None.
ScanTimedOut(ms) == ms >= BackgroundTimeoutMs
TimeoutResultPartial(b) == [bg EXCEPT !.todo = @ \ {b}, !.ms = BackgroundTimeoutMs, !.result = "some"]
TimeoutResult(b) ==
    [NoBg EXCEPT !.ms = BackgroundTimeoutMs, !.dropped = bg.updates, !.result = "timeout"]

\* A scan that stops at the first binary that fails.
ScanRestAbort(todo, b, failed) == IF failed THEN {} ELSE todo \ {b}

\* update.rs:39-48 `Err(_) => continue`: whether or not the request or the
\* parse failed, the scan goes on with the binaries that are left.
ScanRest(todo, b, failed) == todo \ {b}

\* update.rs:28-57: the scan takes the next recorded binary (in the map's
\* order, which is arbitrary): one not in the registry is skipped, else its
\* latest release is requested and compared.
BgFetch(b, o) ==
    /\ pc = "scan"
    /\ b \in bg.todo
    /\ o \in ScanOutcomes
    /\ IF b \notin {AllBinaries[i].name : i \in 1..Len(AllBinaries)}
       THEN /\ o = "ok"
            /\ bg' = [bg EXCEPT !.todo = @ \ {b}]
            /\ pc' = "scan"
            /\ UNCHANGED <<budget, obs>>
       ELSE /\ budget.faults + Fault(o) <= MaxFaults
            /\ budget' = [budget EXCEPT !.faults = @ + Fault(o)]
            /\ IF ScanTimedOut(bg.ms + RequestMs(o))
               THEN /\ bg' = TimeoutResult(b)
                    /\ obs' = [obs EXCEPT !.delay = @ + BackgroundTimeoutMs]
                    /\ pc' = IF bg'.result = "timeout" THEN "handoff" ELSE "advisory"
               ELSE LET pv == ParseReleaseVersion(ReleaseOf(b, release[b], o).tag)
                        newer == o \in ReleaseShapes /\ pv.ok /\ VersionLT(mem.binaries[b].version, pv.version)
                    IN /\ bg' = [bg EXCEPT !.todo = ScanRest(@, b, ~(o \in ReleaseShapes /\ pv.ok)),
                                           !.ms = @ + RequestMs(o),
                                           !.asked = @ \cup {b},
                                           !.answered = IF o \in ReleaseShapes THEN @ \cup {b} ELSE @,
                                           !.parsed = IF o \in ReleaseShapes /\ pv.ok
                                                      THEN @ \cup {b} ELSE @,
                                           !.updates = IF newer THEN @ \cup {b} ELSE @]
                       /\ pc' = "scan"
                       /\ UNCHANGED obs
    /\ UNCHANGED <<worldVars, inv, mem, job, tasks, results, notMain>>

\* update.rs:112-117, main.rs:168-172: the scan completed in time:
\* Some((updates, true)); the notifications are printed.
BgDone ==
    /\ pc = "scan"
    /\ bg.todo = {}
    /\ bg' = [bg EXCEPT !.result = "some"]
    /\ obs' = [obs EXCEPT !.delay = @ + bg.ms, !.notified = bg.updates]
    /\ pc' = "advisory"
    /\ UNCHANGED <<worldVars, inv, mem, job, tasks, results, budget, notMain>>

\* main.rs:174-187: the advisories are fetched with a client of their own
\* and matched; then the check is stamped and the state saved.
AdvisoryFetch(o, written) ==
    /\ pc = "advisory"
    /\ o \in {"ok", "fail", "hang"}
    /\ written \in BOOLEAN
    /\ budget.faults + Fault(o) + (IF written THEN 0 ELSE 1) <= MaxFaults
    /\ budget' = [budget EXCEPT !.faults = @ + Fault(o) + (IF written THEN 0 ELSE 1)]
    /\ LET st == MarkUpdateChecked(mem, now)
       IN /\ mem' = st
          /\ stateFile' = Save(st, written, stateFile)
    /\ obs' = [obs EXCEPT !.delay = @ + RequestMs(o),
                          !.advisory = o,
                          !.warned = IF o = "ok" THEN CheckAdvisories(AdvisoryDoc, mem) ELSE {}]
    /\ pc' = "handoff"
    /\ UNCHANGED <<platform, binFile, onPath, release, now>>
    /\ UNCHANGED <<inv, job, tasks, results, bg, notMain>>

(***************************************************************************)
(* exec.rs run_binary                                                      *)
(***************************************************************************)

\* A run_binary that flushes before it looks whether the path exists.
RunBinaryFlushFirst(exists) ==
    IF ~exists
    THEN [ok |-> FALSE, error |-> "BinaryNotFound",
          steps |-> <<"flush_stdout", "flush_stderr", "exists">>]
    ELSE [ok |-> TRUE, error |-> "none",
          steps |-> <<"flush_stdout", "flush_stderr", "exists", "exec">>]

\* exec.rs:16-43 run_binary: look whether the path exists and return
\* BinaryNotFound at once when it does not; else flush_output (stdout, then
\* stderr) and the transfer of execution (exec on Unix, a child process on
\* Windows).
RunBinary(exists) ==
    IF ~exists
    THEN [ok |-> FALSE, error |-> "BinaryNotFound", steps |-> <<"exists">>]
    ELSE [ok |-> TRUE, error |-> "none",
          steps |-> <<"exists", "flush_stdout", "flush_stderr", "exec">>]

\* run_binary has been called: the dispatch has come to its handoff.
RunBinaryCalled == obs.ran # << >>

\* main.rs:190-204, exec.rs:16-35: BinaryNotFound when the resolved path
\* does not exist, else the process is replaced by the binary.
Handoff ==
    /\ pc = "handoff"
    /\ LET exists == IF inv.path = "managed" THEN binFile[inv.bin].present
                     ELSE inv.bin \in onPath[inv.dir]
           r == RunBinary(exists)
       IN /\ pc' = IF r.ok THEN "exec" ELSE "exit"
          /\ obs' = [obs EXCEPT !.ran = r.steps, !.exit = IF r.ok THEN @ ELSE 1]
    /\ UNCHANGED <<worldVars, inv, mem, job, tasks, results, bg, budget, notMain>>

(***************************************************************************)
(* main.rs handle_update, handle_list; update.rs update_binary,            *)
(* self_update, update_all                                                 *)
(***************************************************************************)

\* The targets of `iii-cli update` drawn; None is no target.
UpdateTargets == {None, "self", "iii-cli", "iii-console", "create", "foobar"}

\* The registry walked from its last entry to its first.
RegistryOrderReversed ==
    [i \in 1..Len(AllBinaries) |-> AllBinaries[Len(AllBinaries) + 1 - i].name]
\* update.rs:310 the registry entries in the order all_binaries returns them
RegistryOrder == [i \in 1..Len(AllBinaries) |-> AllBinaries[i].name]

IsErr(r) == r.kind \notin {"Updated", "AlreadyUpToDate"}

\* main.rs:209-252: build the client, load the state (a failure exits 1),
\* create the directories, and resolve the target to the updates to run;
\* update.rs:303-314 update_all: self_update, then the registry in order.
UpdateStart(t, e) ==
    /\ pc = "idle"
    /\ budget.runs < MaxInvocations
    /\ e \in {"ok", "noclient", "nodirs"}
    /\ budget.faults + Fault(e) <= MaxFaults
    /\ budget' = [budget EXCEPT !.runs = @ + 1, !.faults = @ + Fault(e)]
    /\ LET lr == Load(stateFile)
           r == ResolveBinaryForUpdate(t)
           isSelf == t \in {"iii-cli", "self"}
           bad == e # "ok" \/ ~lr.ok \/ (t # None /\ ~isSelf /\ ~r.ok)
       IN /\ e = "nodirs" => lr.ok
          /\ inv' = [NoInv EXCEPT !.kind = "update", !.command = t]
          /\ mem' = IF lr.ok /\ e # "noclient" THEN lr.st ELSE DefaultState
          /\ obs' = [NewObs EXCEPT !.loaded = stateFile, !.exit = IF bad THEN 1 ELSE -1,
                                   !.fault = e]
          /\ pc' = IF bad THEN "exit" ELSE "u_next"
          /\ tasks' = IF bad THEN << >>
                      ELSE IF t = None THEN <<SELF_SPEC.name>> \o RegistryOrder
                      ELSE IF isSelf THEN <<SELF_SPEC.name>>
                      ELSE <<r.spec.name>>
    /\ job' = NoJob
    /\ results' = << >>
    /\ bg' = NoBg
    /\ UNCHANGED <<worldVars, notMain>>

\* update.rs:134-142 update_binary, 227-233 self_update: the platform
\* check, (update_binary only) is_binary_installed, and the request for the
\* latest release.
UpdateBegin ==
    /\ pc = "u_next"
    /\ tasks # << >>
    /\ LET b == Head(tasks)
       IN IF ~CheckPlatformSupport(SpecOf(b))
          THEN /\ results' = Append(results, [kind |-> "UnsupportedPlatform", binary |-> b])
               /\ tasks' = Tail(tasks)
               /\ pc' = "u_next"
               /\ job' = NoJob
          ELSE /\ job' = [NoJob EXCEPT
                            !.caller = IF b = SELF_SPEC.name THEN "self_update" ELSE "update_binary",
                            !.bin = b,
                            !.installed = b # SELF_SPEC.name /\ IsBinaryInstalled(b)]
               /\ pc' = "u_fetch"
               /\ UNCHANGED <<tasks, results>>
    /\ obs' = [obs EXCEPT !.pre = [mem |-> mem, file |-> stateFile, bin |-> binFile[Head(tasks)]]]
    /\ UNCHANGED <<worldVars, inv, mem, bg, budget, notMain>>

\* update.rs:146-156 update_binary: already up to date only when the file
\* is on disk and the recorded version is not below the latest.
UpToDateIgnoringDisk(st, j, latest) ==
    /\ InstalledVersion(st, j.bin) # NoVersion
    /\ VersionGE(InstalledVersion(st, j.bin), latest)
BinaryUpToDate(st, j, latest) ==
    /\ j.installed
    /\ InstalledVersion(st, j.bin) # NoVersion
    /\ VersionGE(InstalledVersion(st, j.bin), latest)

\* A self_update that only knows the version of the running build.
SelfCurrentVersionOfBuild(st) == CARGO_PKG_VERSION

\* update.rs:241-247 self_update: the recorded version, else the build's.
SelfCurrentVersion(st) ==
    IF InstalledVersion(st, SELF_SPEC.name) # NoVersion
    THEN InstalledVersion(st, SELF_SPEC.name) ELSE CARGO_PKG_VERSION

\* update.rs:142-199 update_binary, 233-278 self_update: the answer to
\* fetch_latest_release; parse the tag, return AlreadyUpToDate or find the
\* asset and the sidecar and call download_and_install.
UpdateFetch(o) ==
    /\ pc = "u_fetch"
    /\ o \in FetchOutcomes
    /\ budget.faults + Fault(o) <= MaxFaults
    /\ budget' = [budget EXCEPT !.faults = @ + Fault(o)]
    /\ LET b == job.bin
           rel == ReleaseOf(b, release[b], o)
           pv == ParseReleaseVersion(rel.tag)
           self == job.caller = "self_update"
           current == SelfCurrentVersion(mem)
           result ==
              IF o = "fail" THEN [kind |-> "Fetch", binary |-> b]
              ELSE IF ~pv.ok THEN [kind |-> "VersionParse", binary |-> b]
              ELSE IF ~self /\ BinaryUpToDate(mem, job, pv.version)
                   THEN [kind |-> "AlreadyUpToDate", binary |-> b,
                         version |-> InstalledVersion(mem, b)]
              ELSE IF self /\ VersionGE(current, pv.version)
                   THEN [kind |-> "AlreadyUpToDate", binary |-> b, version |-> current]
              ELSE IF ~FindAsset(rel, AssetName(b))
                   THEN [kind |-> "AssetNotFound", binary |-> b]
              ELSE NoResult
       IN IF result # NoResult
          THEN /\ results' = Append(results, result)
               /\ tasks' = Tail(tasks)
               /\ pc' = "u_next"
               /\ job' = [job EXCEPT !.rel = IF o # "fail" THEN rel ELSE NoRelease,
                                     !.latest = IF o # "fail" THEN pv.version ELSE NoVersion]
          ELSE /\ job' = [job EXCEPT
                            !.rel = rel,
                            !.latest = pv.version,
                            !.current = IF self THEN current ELSE NoVersion,
                            !.checksum = ChecksumUrl(b, rel),
                            !.previous = IF self THEN current
                                         ELSE IF job.installed THEN InstalledVersion(mem, b)
                                         ELSE NoVersion]
               /\ pc' = "dl"
               /\ UNCHANGED <<tasks, results>>
    /\ UNCHANGED <<worldVars, inv, mem, bg, obs, notMain>>

\* An install that is taken to have succeeded whatever it returned.
InstallTakenAsOk(j) == TRUE

\* update.rs:203-210, 280-288 `download_and_install(..).await?`: only an
\* Ok lets the caller go on to record_install.
InstallReturnedOk(j) == j.ret.kind = "Ok"

\* update.rs:203-219, 284-299: download_and_install has returned: an error
\* is returned by `?`; else record_install and Updated {from, to}.
UpdateInstalled ==
    /\ pc = "dl_done"
    /\ job.caller \in {"update_binary", "self_update"}
    /\ IF ~InstallReturnedOk(job)
       THEN /\ results' = Append(results, [kind |-> job.ret.kind, binary |-> job.bin])
            /\ UNCHANGED mem
       ELSE /\ mem' = RecordInstall(mem, job.bin, job.latest, AssetName(job.bin), now)
            /\ results' = Append(results, [kind |-> "Updated", binary |-> job.bin,
                                           from |-> job.previous, to |-> job.latest])
    /\ tasks' = Tail(tasks)
    /\ pc' = "u_next"
    /\ UNCHANGED <<worldVars, inv, job, bg, obs, budget, notMain>>

\* An exit code that is 1 only when every update failed.
UpdateExitCodeAllFailed(rs) ==
    IF rs # << >> /\ \A k \in 1..Len(rs) : IsErr(rs[k]) THEN 1 ELSE 0

\* main.rs:280-285 `if results.iter().any(|r| r.is_err()) { 1 } else { 0 }`
UpdateExitCode(rs) == IF \E k \in 1..Len(rs) : IsErr(rs[k]) THEN 1 ELSE 0

\* main.rs:254-286: print the results, stamp the check, save the state,
\* exit 1 if any update failed.
UpdateFinish(written) ==
    /\ pc = "u_next"
    /\ tasks = << >>
    /\ written \in BOOLEAN
    /\ budget.faults + (IF written THEN 0 ELSE 1) <= MaxFaults
    /\ budget' = [budget EXCEPT !.faults = @ + (IF written THEN 0 ELSE 1)]
    /\ LET st == MarkUpdateChecked(mem, now)
       IN /\ mem' = st
          /\ stateFile' = Save(st, written, stateFile)
    /\ ExitWith(UpdateExitCode(results))
    /\ UNCHANGED <<platform, binFile, onPath, release, now>>
    /\ UNCHANGED <<inv, job, tasks, results, bg, notMain>>

\* main.rs:289-331 handle_list
HandleList ==
    /\ pc = "idle"
    /\ budget.runs < MaxInvocations
    /\ budget' = [budget EXCEPT !.runs = @ + 1]
    /\ LET lr == Load(stateFile)
       IN /\ mem' = lr.st
          /\ obs' = [NewObs EXCEPT !.loaded = stateFile, !.exit = IF lr.ok THEN 0 ELSE 1]
    /\ inv' = [NoInv EXCEPT !.kind = "list"]
    /\ pc' = "exit"
    /\ job' = NoJob
    /\ tasks' = << >>
    /\ results' = << >>
    /\ bg' = NoBg
    /\ UNCHANGED <<worldVars, notMain>>

\* The process has exited, or has been replaced by the binary it dispatched
\* to: nothing of the invocation is left but the files it wrote.
ProcessEnd ==
    /\ Finished
    /\ pc' = "idle"
    /\ inv' = NoInv
    /\ mem' = DefaultState
    /\ job' = NoJob
    /\ tasks' = << >>
    /\ results' = << >>
    /\ bg' = NoBg
    /\ obs' = NewObs
    /\ UNCHANGED <<worldVars, budget, notMain>>

MainNext ==
    \/ ProcessEnd
    \/ Tick
    \/ \E b \in EventBins : PublishRelease(b)
    \/ \E b \in EventBins : WithdrawRelease(b)
    \/ \E b \in EventBins : ExternalDelete(b)
    \/ ExternalDamage
    \/ \E c \in DispatchCommands, nuc \in BOOLEAN, e \in {"ok", "nodirs", "noclient"} :
          DispatchStart(c, nuc, e)
    \/ \E o \in FetchOutcomes : DispatchFetch(o)
    \/ \E o \in {"ok", "corrupt", "fail"} : InstallDownload(o)
    \/ \E f \in BOOLEAN : InstallVerify(f)
    \/ \E o \in {"ok", "noextract", "nowrite"} : InstallWrite(o)
    \/ \E w \in BOOLEAN : DispatchInstalled(w)
    \/ \E e \in {"ok", "noclient"} : BgStart(e)
    \/ \E b \in Bins, o \in ScanOutcomes : BgFetch(b, o)
    \/ BgDone
    \/ \E o \in {"ok", "fail", "hang"}, w \in BOOLEAN : AdvisoryFetch(o, w)
    \/ Handoff
    \/ \E t \in UpdateTargets, e \in {"ok", "noclient", "nodirs"} : UpdateStart(t, e)
    \/ UpdateBegin
    \/ \E o \in FetchOutcomes : UpdateFetch(o)
    \/ UpdateInstalled
    \/ \E w \in BOOLEAN : UpdateFinish(w)
    \/ HandleList

(***************************************************************************)
(* SpecOverlap: handle_dispatch invocations that run at the same time.     *)
(* Each has its own app_state; the state file and the bin directory are    *)
(* shared. A save is taken as one step (write to the temp file and rename),*)
(* which is the most the code can promise.                                 *)
(***************************************************************************)

MaxOvRuns == 2          \* dispatches one shell runs, one after another
Procs == {"p1", "p2"}   \* the shells that run iii-cli at the same time
OvCommands == {"console", "create", "start"}

NoProc == [pc |-> "idle", mem |-> DefaultState, bin |-> "none", found |-> FALSE, runs |-> 0]
NoOv == [procs |-> [p \in Procs |-> NoProc], seen |-> {}]
OvIdle == ov = NoOv

NamesIn(file) == DOMAIN Load(file).st.binaries

\* The shared files change, and the names persisted so far are noted.
OvWorld(p, proc, file, bins) ==
    /\ stateFile' = file
    /\ binFile' = bins
    /\ ov' = [procs |-> [ov.procs EXCEPT ![p] = proc], seen |-> ov.seen \cup NamesIn(file)]
    /\ UNCHANGED <<platform, onPath, release, now, invVars, notOv>>

\* main.rs:39-75: resolve the command, load the state (the default state
\* on a failure), and look for the binary on disk.
OvLoad(p, c) ==
    /\ ov.procs[p].pc = "idle"
    /\ ov.procs[p].runs < MaxOvRuns
    /\ LET r == ResolveCommand(c)
       IN /\ r.ok
          /\ CheckPlatformSupport(r.spec)
          /\ OvWorld(p, [pc |-> "loaded", mem |-> Load(stateFile).st, bin |-> r.spec.name,
                         found |-> FindExistingBinary(r.spec.name) # None,
                         runs |-> ov.procs[p].runs + 1],
                     stateFile, binFile)

\* main.rs:83-143: the binary was found nowhere: download and install the
\* latest release, record_install, save.
OvInstall(p) ==
    /\ ov.procs[p].pc = "loaded"
    /\ ~ov.procs[p].found
    /\ LET b == ov.procs[p].bin
           rel == ReleaseOf(b, release[b], "ok")
           st == RecordInstall(ov.procs[p].mem, b, release[b], AssetName(b), now)
       IN OvWorld(p, [ov.procs[p] EXCEPT !.pc = "bg", !.mem = st],
                  FileOf(st), [binFile EXCEPT ![b] = FileContent(b, rel, GenuinePayload)])

\* main.rs:70-82: the binary was found on disk.
OvFound(p) ==
    /\ ov.procs[p].pc = "loaded"
    /\ ov.procs[p].found
    /\ OvWorld(p, [ov.procs[p] EXCEPT !.pc = "bg"], stateFile, binFile)

\* main.rs:166-187: the background check completed: mark_update_checked,
\* save.
OvStamp(p) ==
    /\ ov.procs[p].pc = "bg"
    /\ LET st == MarkUpdateChecked(ov.procs[p].mem, now)
       IN OvWorld(p, [ov.procs[p] EXCEPT !.pc = "handoff", !.mem = st], FileOf(st), binFile)

\* main.rs:166-188: no check (--no-update-check, not due, timed out).
OvNoStamp(p) ==
    /\ ov.procs[p].pc = "bg"
    /\ OvWorld(p, [ov.procs[p] EXCEPT !.pc = "handoff"], stateFile, binFile)

\* main.rs:190-204: the process is replaced by the binary; the shell may
\* run iii-cli again.
OvHandoff(p) ==
    /\ ov.procs[p].pc = "handoff"
    /\ OvWorld(p, [NoProc EXCEPT !.runs = ov.procs[p].runs], stateFile, binFile)

OvNext ==
    \/ \E p \in Procs, c \in OvCommands : OvLoad(p, c)
    \/ \E p \in Procs : OvInstall(p)
    \/ \E p \in Procs : OvFound(p)
    \/ \E p \in Procs : OvStamp(p)
    \/ \E p \in Procs : OvNoStamp(p)
    \/ \E p \in Procs : OvHandoff(p)

(***************************************************************************)
(* SpecState: state.rs on its own. One AppState, the file it is saved to   *)
(* and loaded from, and the clock; the file can also be written by hand.   *)
(* update_check_interval_hours is a u64: a value from 2^63 up is held as   *)
(* the negative i64 that the cast of state.rs:97 makes of it.              *)
(***************************************************************************)

MaxSxClock == 2         \* hours the clock runs for

\* state.rs:97 `self.update_check_interval_hours as i64` of u64::MAX
HugeInterval == -1

\* The intervals a state file is given by hand.
Intervals == {0, 2, HugeInterval}

\* What is installed and recorded here.
SxBins == {"iii-console"}
SxVersions == {FirstVersion}

\* Documents written by hand: `{}`, one with only an empty binaries map,
\* one with only a last check, and one with only an interval.
HandDocs ==
    {EmptyMap, [binaries |-> EmptyMap], [last_update_check |-> 0]}
        \cup {[update_check_interval_hours |-> k] : k \in Intervals}

HandFiles == {NoStateFile, GarbageFile} \cup {[kind |-> "file", doc |-> d] : d \in HandDocs}

NoSx ==
    [st |-> DefaultState, file |-> NoStateFile, clock |-> 0,
     ops |-> <<"new", "new">>, before |-> DefaultState,
     res |-> [ok |-> TRUE, st |-> DefaultState]]

SxIdle == sx = NoSx
SxInit == sx = NoSx

\* The operation just done and the one before it; what the last load
\* returned is kept only until the next operation.
SxDid(sxv, op) ==
    [sxv EXCEPT !.ops = <<sxv.ops[2], op>>, !.before = NoSx.before, !.res = NoSx.res]

\* state.rs:55-64: AppState::load(path); the caller goes on with the
\* loaded state.
SxLoad ==
    /\ LET r == Load(sx.file)
       IN sx' = [SxDid(sx, "load") EXCEPT
                    !.res = r, !.before = sx.st, !.st = IF r.ok THEN r.st ELSE @]
    /\ UNCHANGED notSx

\* state.rs:67-89: state.save(path), which may fail.
SxSave(written) ==
    /\ written \in BOOLEAN
    /\ sx' = [SxDid(sx, IF written THEN "save" ELSE "savefail") EXCEPT
                 !.file = Save(sx.st, written, @)]
    /\ UNCHANGED notSx

\* state.rs:120-122: state.mark_update_checked()
SxMark ==
    /\ sx' = [SxDid(sx, "mark") EXCEPT !.st = MarkUpdateChecked(@, sx.clock)]
    /\ UNCHANGED notSx

\* state.rs:103-112: state.record_install(name, version, asset_name)
SxRecord(b, v) ==
    /\ b \in SxBins /\ v \in SxVersions
    /\ sx' = [SxDid(sx, "record") EXCEPT
                 !.st = RecordInstall(@, b, v, AssetName(b), sx.clock)]
    /\ UNCHANGED notSx

\* An hour passes.
SxTick ==
    /\ sx.clock < MaxSxClock
    /\ sx' = [SxDid(sx, "tick") EXCEPT !.clock = @ + 1]
    /\ UNCHANGED notSx

\* The file is written, removed or damaged by hand.
SxEdit(f) ==
    /\ f \in HandFiles
    /\ sx' = [SxDid(sx, "edit") EXCEPT !.file = f]
    /\ UNCHANGED notSx

SxNext ==
    \/ SxLoad
    \/ \E w \in BOOLEAN : SxSave(w)
    \/ SxMark
    \/ \E b \in SxBins, v \in SxVersions : SxRecord(b, v)
    \/ SxTick
    \/ \E f \in HandFiles : SxEdit(f)

(***************************************************************************)
(* SpecCalls: one call of a function that depends on its arguments only.   *)
(***************************************************************************)

NoCall == [fn |-> "none", done |-> FALSE]
CallIdle == call = NoCall

\* The advisories drawn: for one of two binaries, with a range that is an
\* upper bound, a lower bound, one version, or that does not parse.
AdvRanges ==
    {[op |-> "<", parts |-> <<0, 2, 5>>], [op |-> ">=", parts |-> <<0, 2, 5>>],
     [op |-> "=", parts |-> <<0, 2, 4>>], [op |-> "?", parts |-> <<0, 2, 5>>],
     [op |-> "<", parts |-> << >>]}
AdvBins == {"iii-console", "iii-tools"}
AdvIds == <<"ADV-1", "ADV-2">>
\* The documents drawn: no advisory, one or two.
AdvDocs ==
    {<< >>}
    \cup {<<[id |-> AdvIds[1], affected_binary |-> b, affected_versions |-> r]>> :
             b \in AdvBins, r \in AdvRanges}
    \cup {<<[id |-> AdvIds[1], affected_binary |-> b1, affected_versions |-> r1],
            [id |-> AdvIds[2], affected_binary |-> b2, affected_versions |-> r2]>> :
             b1 \in AdvBins, r1 \in AdvRanges, b2 \in AdvBins, r2 \in AdvRanges}
\* The states drawn: iii-console not recorded or recorded with one of three
\* versions, iii-tools recorded or not.
AdvVersions == {<<0, 2, 4>>, <<0, 2, 5>>, <<0, 2, 6>>}
AdvStates ==
    LET withConsole == {DefaultState} \cup
            {RecordInstall(DefaultState, "iii-console", v, AssetNameOn("iii-console", "x86_64-unknown-linux-musl"), 0) :
                v \in AdvVersions}
    IN withConsole \cup
       {RecordInstall(st, "iii-tools", <<0, 2, 4>>, AssetNameOn("iii-tools", "x86_64-unknown-linux-musl"), 0) :
           st \in withConsole}

CallsOfCheckAdvisories ==
    {[fn |-> "check_advisories", done |-> FALSE, doc |-> d, st |-> st, ret |-> {}] :
        d \in AdvDocs, st \in AdvStates}

CallCheckAdvisories ==
    /\ call.fn = "check_advisories"
    /\ ~call.done
    /\ call' = [call EXCEPT !.ret = CheckAdvisories(call.doc, call.st), !.done = TRUE]
    /\ UNCHANGED notCall

\* ---- platform.rs data_dir, bin_dir

\* A path is the sequence of its components; an absolute path starts with
\* its root. An Option<PathBuf> is [some, path].
NoPath == [some |-> FALSE, path |-> << >>]
SomePath(p) == [some |-> TRUE, path |-> p]
Join(p, c) == Append(p, c)
IsAbsolute(p) == p # << >> /\ p[1] \in {"/", "C:"}
\* Path::starts_with: base is a prefix of p, component by component.
StartsWith(p, base) ==
    Len(base) <= Len(p) /\ \A k \in 1..Len(base) : p[k] = base[k]

\* The operating systems of the targets of current_target (platform.rs:10-28).
OsOf(t) ==
    IF t \in WindowsTargets THEN "windows"
    ELSE IF t \in {"aarch64-apple-darwin", "x86_64-apple-darwin"} THEN "macos"
    ELSE "linux"

\* The environments drawn: the build's target; a home directory or none;
\* XDG_DATA_HOME unset, relative, or one of three absolute paths; on
\* Windows the roaming application-data folder.
DirTargets == {"x86_64-unknown-linux-musl", "aarch64-apple-darwin", "x86_64-pc-windows-msvc"}
HomeOf(t) == IF OsOf(t) = "windows" THEN <<"C:", "Users", "u">> ELSE <<"/", "home", "u">>
XdgValues ==
    {NoPath, SomePath(<<"data">>), SomePath(<<"/", "data">>),
     SomePath(<<"/", "home", "u", ".local">>), SomePath(<<"/", "home", "u", ".local", "bin">>)}
DirEnvs ==
    {e \in [target : DirTargets,
            home : {NoPath} \cup {SomePath(HomeOf(t)) : t \in DirTargets},
            xdg_data_home : XdgValues] :
        /\ e.home.some => e.home.path = HomeOf(e.target)
        /\ OsOf(e.target) = "windows" => e.home.some}

\* dirs::home_dir
DirsHomeDir(env) == env.home

\* dirs::data_dir: on Linux $XDG_DATA_HOME when it is an absolute path,
\* else $HOME/.local/share; on macOS $HOME/Library/Application Support; on
\* Windows the roaming application-data folder.
DirsDataDir(env) ==
    CASE OsOf(env.target) = "linux" ->
            IF env.xdg_data_home.some /\ IsAbsolute(env.xdg_data_home.path)
            THEN env.xdg_data_home
            ELSE IF env.home.some
                 THEN SomePath(Join(Join(env.home.path, ".local"), "share"))
                 ELSE NoPath
      [] OsOf(env.target) = "macos" ->
            IF env.home.some
            THEN SomePath(Join(Join(env.home.path, "Library"), "Application Support"))
            ELSE NoPath
      [] OTHER -> SomePath(Join(Join(env.home.path, "AppData"), "Roaming"))

HomeOrDot(env) == IF DirsHomeDir(env).some THEN DirsHomeDir(env).path ELSE <<".">>

\* platform.rs:50-59 data_dir
DataDir(env) ==
    Join(IF DirsDataDir(env).some THEN DirsDataDir(env).path
         ELSE Join(Join(HomeOrDot(env), ".local"), "share"),
         "iii-cli")

\* platform.rs:68-80 bin_dir
BinDir(env) ==
    IF OsOf(env.target) = "windows" THEN Join(DataDir(env), "bin")
    ELSE Join(Join(HomeOrDot(env), ".local"), "bin")

CallsOfDirs == {[fn |-> "dirs", done |-> FALSE, env |-> e, data |-> << >>, bin |-> << >>] : e \in DirEnvs}

\* platform.rs:50-80: data_dir() and bin_dir() in one environment
CallDirs ==
    /\ call.fn = "dirs"
    /\ ~call.done
    /\ call' = [call EXCEPT !.data = DataDir(call.env), !.bin = BinDir(call.env), !.done = TRUE]
    /\ UNCHANGED notCall

\* ---- github.rs fetch_latest_release

\* The answers to GET /repos/{repo}/releases/latest drawn: the request
\* fails in transport, or is answered with a status and a body that is the
\* JSON of a release or is not.
HttpStatuses == {200, 304, 403, 404, 500}
FetchBins == {"iii-cli", "iii-console"}
HttpResponses ==
    {[sent |-> FALSE, status |-> 0, body_parses |-> FALSE]}
    \cup [sent : {TRUE}, status : HttpStatuses, body_parses : BOOLEAN]

\* http::StatusCode::is_success, is_client_error, is_server_error
IsSuccess(status) == 200 <= status /\ status <= 299
IsClientError(status) == 400 <= status /\ status <= 499
IsServerError(status) == 500 <= status /\ status <= 599

\* reqwest Response::error_for_status: an error for a 4xx or 5xx status,
\* the response itself for every other status.
ErrorForStatus(status) ==
    IF IsClientError(status) \/ IsServerError(status)
    THEN [is_err |-> TRUE, status |-> status]
    ELSE [is_err |-> FALSE, status |-> status]

\* A mapping that has an error at hand for every status that is not a
\* success.
OtherStatusAlwaysError(status) == [kind |-> "RequestFailed", status |-> status]

\* github.rs:76-80 the last arm of the match:
\* RequestFailed(response.error_for_status().unwrap_err()); unwrap_err
\* panics when error_for_status returned Ok.
OtherStatus(status) ==
    IF ErrorForStatus(status).is_err
    THEN [kind |-> "RequestFailed", status |-> status]
    ELSE [kind |-> "panic", status |-> status]

\* github.rs:52-82 fetch_latest_release
FetchLatestRelease(resp, b, v) ==
    IF ~resp.sent THEN [kind |-> "Reqwest"]
    ELSE IF IsSuccess(resp.status)
         THEN IF resp.body_parses
              THEN [kind |-> "Release", release |-> ReleaseOf(b, v, "ok")]
              ELSE [kind |-> "Reqwest"]
    ELSE IF resp.status = 403 THEN [kind |-> "RateLimited"]
    ELSE IF resp.status = 404 THEN [kind |-> "NoReleasesAvailable", binary |-> b]
    ELSE OtherStatus(resp.status)

CallsOfFetch ==
    {[fn |-> "fetch_latest_release", done |-> FALSE, resp |-> r, bin |-> b,
      ret |-> [kind |-> "none"]] : r \in HttpResponses, b \in FetchBins}

CallFetch ==
    /\ call.fn = "fetch_latest_release"
    /\ ~call.done
    /\ call' = [call EXCEPT !.ret = FetchLatestRelease(call.resp, call.bin, FirstVersion),
                            !.done = TRUE]
    /\ UNCHANGED notCall

CallInit == call \in CallsOfCheckAdvisories \cup CallsOfDirs \cup CallsOfFetch

CallNext ==
    \/ CallCheckAdvisories
    \/ CallDirs
    \/ CallFetch

InitMain == MainInit /\ FsIdle /\ SumIdle /\ OvIdle /\ SxIdle /\ CallIdle
Spec == InitMain /\ [][MainNext]_vars

InitFS == FsInit /\ SumIdle /\ MainIdle /\ OvIdle /\ SxIdle /\ CallIdle
SpecFS == InitFS /\ [][FsNext]_vars

\* What a reader of the target path sees.
Absent == <<-1>>
TargetContent == IF fsPath["target"] = 0 THEN Absent ELSE fsData[fsPath["target"]]

CompleteArtifacts == {OldContent} \cup NewContents

TargetIntact == fsPath["target"] = 0 \/ TargetContent \in CompleteArtifacts

\* C1: with one invocation at a time, interrupted at any step, the target
\* path is absent or holds a complete artifact (the previous one or a fully
\* written new one), never a truncated or partial one.
C1_AtomicWriteCrashSafe == ~overlap => TargetIntact

\* C1 witness: an invocation was interrupted with its temp file partly
\* written, on top of an earlier completed write.
C1_Witness ==
    /\ ~overlap
    /\ \E w \in Writers : wr[w].pc = "crashed"
    /\ fsPath["temp"] # 0 /\ Len(fsData[fsPath["temp"]]) = 1
    /\ TargetContent \in NewContents

\* C2: overlapping invocations writing the same target never leave, or let
\* a reader see, a half-written file at the target path.
C2_NoHalfWrittenUnderOverlap == overlap => TargetIntact

InitSum == SumInit /\ FsIdle /\ MainIdle /\ OvIdle /\ SxIdle /\ CallIdle
SpecSum == InitSum /\ [][SumNext]_vars

IsSpaceAt(t, k) == t[k] \in Whitespace

\* The sidecar body t has, as its first white-space-delimited token, a
\* spelling (in either case) of the digest of p. Stated by positions: white
\* space before i, none from i to j, and j is the end or is followed by
\* white space.
TokenIsDigestOf(t, p) ==
    \E i \in 1..Len(t) : \E j \in i..Len(t) :
        /\ \A k \in 1..(i - 1) : IsSpaceAt(t, k)
        /\ \A k \in i..j : ~IsSpaceAt(t, k)
        /\ j = Len(t) \/ IsSpaceAt(t, j + 1)
        /\ j - i + 1 = Len(Sha256Hex(p))
        /\ \A k \in 1..(j - i + 1) : LowerChar(t[i + k - 1]) = Sha256Hex(p)[k]

Returned == sumResult.kind \notin {"pending", "idle", "Network"}

\* C4: once the sidecar is fetched, verify_checksum accepts payload P exactly
\* when the first white-space-delimited token of the sidecar, lower-cased, is
\* the hex SHA-256 digest of P; a sidecar carrying the digest of another
\* payload Q makes it fail with ChecksumMismatch carrying the asset name,
\* expected = digest of Q and actual = digest of P.
C4_ChecksumAcceptsExactlyDigest ==
    Returned =>
        /\ sumResult.kind = "Ok" <=> TokenIsDigestOf(sumText, sumPayload)
        /\ \A q \in Payloads \ {sumPayload} :
              TokenIsDigestOf(sumText, q) =>
                  sumResult = [kind |-> "ChecksumMismatch", asset |-> sumAsset,
                               expected |-> Sha256Hex(q),
                               actual |-> Sha256Hex(sumPayload)]

\* C4 witness: the sidecar holds the digest of P2 in upper case followed by
\* a file name, the payload is P1, and the call has returned a mismatch.
C4_Witness ==
    /\ sumText = <<"B", "A", " ", "a">>
    /\ sumPayload = "P1"
    /\ sumResult.kind = "ChecksumMismatch"

(***************************************************************************)
(* Installs and updates                                                    *)
(***************************************************************************)

RecordOf(st, b) == IF b \in DOMAIN st.binaries THEN <<st.binaries[b]>> ELSE << >>

\* download_and_install has gone past the download of the current job.
Downloaded == "download" \in job.steps /\ pc \notin {"dl", "sum"}

\* update_binary or self_update has just returned for the current job.
UpdateReturned ==
    /\ pc = "u_next"
    /\ job.caller \in {"update_binary", "self_update"}
    /\ Len(results) > 0
    /\ results[Len(results)].binary = job.bin

LastResult == results[Len(results)]

\* C3: when a checksum URL is supplied and the downloaded bytes are not the
\* ones the sidecar's digest is of, download_and_install fails (with
\* ChecksumMismatch once the sidecar is fetched) before anything is
\* extracted, the target file is what it was before the call, and the
\* state, in memory and on disk, records no install of the binary: the
\* caller reports no Updated and dispatch exits 1 without a handoff.
C3_ChecksumMismatchFatal ==
    (job.checksum /\ job.bytes = CorruptPayload /\ Downloaded) =>
        /\ job.ret.kind \in {"ChecksumMismatch", "Network"}
        /\ job.ret.kind = "ChecksumMismatch" =>
               /\ job.ret.asset = AssetName(job.bin)
               /\ job.ret.expected = Sha256Hex(GenuinePayload)
               /\ job.ret.actual = Sha256Hex(CorruptPayload)
        /\ job.steps = {"download", "verify"}
        /\ binFile[job.bin] = obs.pre.bin
        /\ RecordOf(mem, job.bin) = RecordOf(obs.pre.mem, job.bin)
        /\ RecordOf(Load(stateFile).st, job.bin) = RecordOf(Load(obs.pre.file).st, job.bin)
        /\ \A k \in 1..Len(results) :
               results[k].binary = job.bin => results[k].kind = job.ret.kind
        /\ pc # "exec"
        /\ job.caller = "dispatch" => pc = "dl_done" \/ (pc = "exit" /\ obs.exit = 1)

\* C3 witness: an update of an installed binary downloaded a damaged
\* archive, failed with ChecksumMismatch, and has exited with the old
\* executable still in place.
C3_Witness ==
    /\ pc = "exit"
    /\ job.caller = "update_binary"
    /\ job.ret.kind = "ChecksumMismatch"
    /\ obs.pre.bin.present
    /\ binFile[job.bin] = obs.pre.bin

\* The precondition of C5 at the return of update_binary: the binary was on
\* disk, the latest release was fetched and parsed, and the version
\* recorded is not below it.
PresentAndCurrent ==
    /\ UpdateReturned
    /\ job.caller = "update_binary"
    /\ job.installed
    /\ job.latest # NoVersion
    /\ InstalledVersion(obs.pre.mem, job.bin) # NoVersion
    /\ ~VersionLT(InstalledVersion(obs.pre.mem, job.bin), job.latest)

\* C5: update_binary of a binary that is on disk and recorded at a version
\* not below the latest release downloads nothing, leaves the target file
\* and the state as they were, and returns AlreadyUpToDate with the
\* recorded version.
C5_UpToDateNoDownload ==
    PresentAndCurrent =>
        /\ LastResult = [kind |-> "AlreadyUpToDate", binary |-> job.bin,
                         version |-> InstalledVersion(obs.pre.mem, job.bin)]
        /\ job.bin \notin obs.downloads
        /\ job.steps = {}
        /\ binFile[job.bin] = obs.pre.bin
        /\ mem = obs.pre.mem
        /\ stateFile = obs.pre.file

\* C5 witness: update_binary returned for an installed binary whose
\* recorded version equals the latest release.
C5_Witness ==
    /\ PresentAndCurrent
    /\ binFile[job.bin].present
    /\ InstalledVersion(mem, job.bin) = job.latest
    /\ LastResult.kind = "AlreadyUpToDate"

\* The precondition of C6 and C7 at the return of an update: the state
\* recorded a version for the binary but its executable was nowhere on disk.
RecordedButAbsent ==
    /\ UpdateReturned
    /\ InstalledVersion(obs.pre.mem, job.bin) # NoVersion
    /\ ~obs.pre.bin.present
    /\ \A i \in DOMAIN onPath : job.bin \notin onPath[i]

\* An update that met no failure installed the latest release as a fresh
\* install: Updated with from = None, the archive it downloaded from the
\* latest release on disk, and the latest version in the record.
FreshInstall ==
    /\ LastResult.kind # "AlreadyUpToDate"
    /\ ~IsErr(LastResult) =>
          /\ LastResult = [kind |-> "Updated", binary |-> job.bin,
                           from |-> NoVersion, to |-> job.latest]
          /\ job.bin \in obs.downloads
          /\ binFile[job.bin] = FileContent(job.bin, job.rel, job.bytes)
          /\ InstalledVersion(mem, job.bin) = job.latest

\* C6: update_binary of a binary that the state records but whose
\* executable is neither in the managed bin directory nor on the PATH never
\* returns AlreadyUpToDate, whatever the recorded version; unless a step
\* fails it downloads and installs the latest release and returns Updated
\* with from = None.
C6_AbsentBinaryFreshInstall ==
    (RecordedButAbsent /\ job.caller = "update_binary") => FreshInstall

\* C6 witness: the record was not below the latest release, the executable
\* had been deleted, and update_binary returned Updated with from = None.
C6_Witness ==
    /\ RecordedButAbsent
    /\ job.caller = "update_binary"
    /\ LastResult.kind = "Updated"
    /\ LastResult.from = NoVersion
    /\ ~VersionLT(InstalledVersion(obs.pre.mem, job.bin), job.latest)

\* C7: self_update with iii-cli recorded at a version not below the latest
\* release but the managed iii-cli executable absent does not return
\* AlreadyUpToDate; it installs the latest release and reports from = None.
C7_SelfUpdateChecksDisk ==
    (/\ RecordedButAbsent
     /\ job.caller = "self_update"
     /\ job.latest # NoVersion
     /\ ~VersionLT(InstalledVersion(obs.pre.mem, job.bin), job.latest)) => FreshInstall

(***************************************************************************)
(* The background check                                                    *)
(***************************************************************************)

LastCheckUnchanged ==
    /\ mem.last_update_check = obs.pre.mem.last_update_check
    /\ Load(stateFile).st.last_update_check = Load(obs.pre.file).st.last_update_check

\* C8: when the scan is cut at the timeout, run_background_check returns
\* None, nothing found so far is notified, no mark_update_checked and no
\* save follow (the state in memory and the state file are as before the
\* check), and the check is still due for what the next invocation loads.
C8_TimeoutLeavesCheckDue ==
    (inv.kind = "dispatch" /\ ScanTimedOut(bg.ms)) =>
        /\ bg.result = "timeout"
        /\ bg.updates = {} /\ obs.notified = {} /\ obs.advisory = "none"
        /\ mem = obs.pre.mem
        /\ stateFile = obs.pre.file
        /\ IsUpdateCheckDue(mem, now)
        /\ IsUpdateCheckDue(Load(stateFile).st, now)

\* C8 witness: the scan had found an update when a later request hung; the
\* find was thrown away and the binary has been handed off to.
C8_Witness ==
    /\ pc = "exec"
    /\ bg.result = "timeout"
    /\ bg.dropped # {}
    /\ stateFile.kind = "file"

\* C9: a due background check of a dispatch that installed nothing, during
\* which every release request fails or never answers, returns no result and leaves last_update_check unchanged
\* in memory and in the state file.
C9_UnreachableLeavesCheckUnstamped ==
    (/\ inv.kind = "dispatch"
     /\ pc \in {"advisory", "handoff", "exec", "exit"}
     /\ bg.result \in {"some", "timeout"}
     /\ job = NoJob
     /\ bg.asked # {}
     /\ bg.answered = {}) =>
        /\ bg.result # "some"
        /\ LastCheckUnchanged

\* C10: in a dispatch whose binary was found locally, the requests awaited
\* between loading the state and the handoff take no more than the
\* background bound together.
C10_HandoffWithinBound ==
    (/\ inv.kind = "dispatch"
     /\ job = NoJob
     /\ pc \in {"handoff", "exec"}) => obs.delay <= BackgroundTimeoutMs

(***************************************************************************)
(* update_all                                                              *)
(***************************************************************************)

\* iii-cli first, then the entries of REGISTRY as they are written.
UpdateAllOrder ==
    [k \in 1..(1 + Len(REGISTRY)) |-> IF k = 1 THEN SELF_SPEC.name ELSE REGISTRY[k - 1].name]

\* `iii-cli update` with no target has got as far as update_all.
InUpdateAll ==
    /\ inv.kind = "update"
    /\ inv.command = None
    /\ pc # "exit" \/ results # << >>

\* C11: update_all runs self_update, then update_binary for each registry
\* entry in registry order: the results so far are those of the first
\* binaries of that order, the binaries still to run are the rest of it
\* whatever the results were, and at the end there is exactly one result
\* per binary, 1 + the number of registry entries.
C11_UpdateAllOrderNoAbort ==
    InUpdateAll =>
        /\ Len(results) + Len(tasks) = Len(UpdateAllOrder)
        /\ \A k \in 1..Len(results) : results[k].binary = UpdateAllOrder[k]
        /\ \A k \in 1..Len(tasks) : tasks[k] = UpdateAllOrder[Len(results) + k]
        /\ pc = "exit" => Len(results) = 1 + Len(REGISTRY)

\* C11 witness: update_all has finished; an earlier binary failed and a
\* later one was updated.
C11_Witness ==
    /\ InUpdateAll
    /\ pc = "exit"
    /\ \E i \in 1..Len(results) : \E k \in (i + 1)..Len(results) :
          IsErr(results[i]) /\ results[k].kind = "Updated"

(***************************************************************************)
(* The persisted binaries map                                              *)
(***************************************************************************)

PersistedNames(file) == DOMAIN Load(file).st.binaries

\* The binaries for which download_and_install returned success in this
\* invocation.
InstalledNow ==
    {results[k].binary : k \in {i \in 1..Len(results) : results[i].kind = "Updated"}}
        \cup (IF job.caller = "dispatch" /\ job.ret.kind = "Ok" THEN {job.bin} ELSE {})

\* C12: the state file starts absent, and at the end of every invocation
\* the names in the persisted binaries map are those that were there when
\* the invocation started together with those it installed
\* successfully: a name has an entry if and only if some invocation
\* completed an install of it.
C12_EntryIffInstalled ==
    Finished => PersistedNames(stateFile) = PersistedNames(obs.loaded) \cup InstalledNow

InitOverlap == MainInit /\ FsIdle /\ SumIdle /\ OvIdle /\ SxIdle /\ CallIdle
SpecOverlap == InitOverlap /\ [][OvNext]_vars

\* C13: once a binary has an entry in the persisted state file, every
\* later persisted state has an entry for it, whether the dispatches run
\* one after another or at the same time.
C13_RecordNeverDeleted == ov.seen \subseteq NamesIn(stateFile)

(***************************************************************************)
(* A state file that does not load                                         *)
(***************************************************************************)

\* The state file the invocation found is there but cannot be read or parsed.
LoadFails == obs.loaded = GarbageFile

\* C14: when AppState::load fails, handle_dispatch goes on with the
\* default state: once past the load it holds the default state until an
\* install changes it, and it ends in the handoff whenever the binary is on
\* disk or on the PATH; handle_update and handle_list end with exit code 1
\* and the state file as it was, without having run any update.
C14_LoadFailure ==
    LoadFails =>
        /\ (inv.kind = "dispatch" /\ inv.path # "none") =>
              /\ (pc \in {"d_fetch", "dl", "sum", "extract", "bg"} /\ job.ret.kind # "Ok")
                    => mem = DefaultState
              /\ (Finished /\ (inv.path = "path" \/ binFile[inv.bin].present))
                    => pc = "exec"
        /\ inv.kind \in {"update", "list"} =>
              /\ pc = "exit" /\ obs.exit = 1
              /\ stateFile = obs.loaded
              /\ results = << >> /\ tasks = << >> /\ obs.downloads = {}

\* C14 witness: a dispatch that could not load the state file installed
\* its binary and handed off to it.
C14_Witness ==
    /\ LoadFails
    /\ inv.kind = "dispatch"
    /\ job.ret.kind = "Ok"
    /\ pc = "exec"

(***************************************************************************)
(* Verification and the sidecar                                            *)
(***************************************************************************)

\* The archive of the current install has been downloaded and the
\* verification, if any, is over.
PastVerification == job.caller # "none" /\ job.bytes # "none" /\ pc # "sum"

SidecarExpected ==
    SpecOf(job.bin).has_checksum /\ ChecksumAssetNameOn(job.bin, platform) \in job.rel.assets

\* C15: an install runs verify_checksum exactly when the spec has
\* has_checksum and the release holds the asset {name}-{target}.sha256;
\* otherwise it prints the warning, is not failed for the missing checksum,
\* and goes on to extract the archive unverified.
C15_VerifiesExactlyWithSidecar ==
    PastVerification =>
        /\ "verify" \in job.steps <=> SidecarExpected
        /\ "warn" \in job.steps <=> ~SidecarExpected
        /\ ~SidecarExpected =>
              /\ job.ret.kind \notin {"ChecksumMismatch", "Network", "Failed"}
              /\ pc = "extract" \/ "extract" \in job.steps

\* C15 witness: the release of a binary with has_checksum had no sidecar;
\* the install warned, did not verify, and succeeded.
C15_Witness ==
    /\ PastVerification
    /\ SpecOf(job.bin).has_checksum
    /\ ~SidecarExpected
    /\ job.steps = {"download", "warn", "extract", "write"}
    /\ job.ret.kind = "Ok"

(***************************************************************************)
(* What a completed background check looked at                             *)
(***************************************************************************)

\* run_background_check returned Some: the scan ran to its end in time.
ScanCompleted == inv.kind = "dispatch" /\ bg.result = "some"

RecordedAtScan == DOMAIN obs.pre.mem.binaries

\* C16: a completed background check asks for the latest release of every
\* binary recorded in the state, registry entry or not, and the updates it
\* reports are the recorded binaries whose latest release (when the tag
\* parsed) is above the recorded version, and no others.
C16_ScanCoversRecorded ==
    ScanCompleted =>
        /\ RecordedAtScan \subseteq bg.asked
        /\ bg.updates \subseteq RecordedAtScan
        /\ \A b \in bg.parsed :
              b \in bg.updates <=> VersionLT(obs.pre.mem.binaries[b].version, release[b])

\* The binaries of this scan whose request failed or whose tag did not parse.
ScanFailures == bg.asked \ bg.parsed

\* C17: in a background scan a failed release request or an unparsable tag
\* for one binary only skips that binary: it is not reported, the recorded
\* registry binaries that are left are still asked for, the check returns
\* its result and not an error, and the dispatch ends in the handoff.
C17_ScanFailureSwallowed ==
    (inv.kind = "dispatch" /\ ScanFailures # {}) =>
        /\ ScanFailures \cap bg.updates = {}
        /\ bg.result \in {"scanning", "some"}
        /\ (RecordedAtScan \cap RegistryNames) \subseteq (bg.asked \cup bg.todo)
        /\ bg.result = "some" => (RecordedAtScan \cap RegistryNames) \subseteq bg.asked
        /\ pc \in {"scan", "advisory", "handoff", "exec"} \/ RunBinaryCalled

\* C17 witness: one binary's request failed or its tag did not parse,
\* another binary's update was found in the same scan, and the binary has
\* been handed off to.
C17_Witness ==
    /\ inv.kind = "dispatch"
    /\ ScanFailures # {}
    /\ bg.updates # {}
    /\ pc = "exec"

(***************************************************************************)
(* The background step when there is nothing to do                         *)
(***************************************************************************)

\* The dispatch has entered its background step.
InBackgroundStep == inv.kind = "dispatch" /\ bg.result # "none"

\* At the start of the background step the last check was less than the
\* interval ago.
CheckedRecently ==
    /\ obs.pre.mem.last_update_check # NoCheck
    /\ now - obs.pre.mem.last_update_check < obs.pre.mem.update_check_interval_hours

\* Nothing was asked of the network and nothing of the state changed in
\* the background step.
BackgroundStepIdle ==
    /\ bg.asked = {} /\ bg.todo = {} /\ bg.ms = 0
    /\ obs.delay = 0
    /\ obs.advisory = "none"
    /\ obs.notified = {}
    /\ mem = obs.pre.mem
    /\ stateFile = obs.pre.file

\* C18: when no update check is due, run_background_check returns None
\* before it builds a client or sends a request, and the dispatch fetches
\* no advisories and leaves last_update_check and the state file as they
\* were; the dispatch is at its handoff or has called run_binary.
C18_NotDueIsNoOp ==
    (InBackgroundStep /\ ~inv.no_update_check /\ CheckedRecently) =>
        /\ bg.result = "notdue"
        /\ BackgroundStepIdle
        /\ pc \in {"handoff", "exec"} \/ RunBinaryCalled

\* C18 witness: a dispatch with recorded binaries, checked less than the
\* interval ago, has handed off without a check.
C18_Witness ==
    /\ InBackgroundStep
    /\ ~inv.no_update_check
    /\ CheckedRecently
    /\ DOMAIN mem.binaries # {}
    /\ pc = "exec"

\* C19: with --no-update-check a dispatch asks for no release and no
\* advisories and leaves last_update_check as it was, in memory and in the
\* state file, whether or not a check is due.
C19_NoUpdateCheckFlag ==
    (InBackgroundStep /\ inv.no_update_check) =>
        /\ bg.result = "disabled"
        /\ BackgroundStepIdle
        /\ mem.last_update_check = Load(obs.loaded).st.last_update_check
        /\ Load(stateFile).ok =>
               Load(stateFile).st.last_update_check = Load(obs.loaded).st.last_update_check
        /\ pc \in {"handoff", "exec"} \/ RunBinaryCalled

\* C19 witness: a check was due and there were recorded binaries, and the
\* dispatch with --no-update-check handed off without it.
C19_Witness ==
    /\ InBackgroundStep
    /\ inv.no_update_check
    /\ ~CheckedRecently
    /\ DOMAIN mem.binaries # {}
    /\ pc = "exec"

(***************************************************************************)
(* self_update's current version                                           *)
(***************************************************************************)

\* self_update has returned after it fetched a release whose tag parsed.
SelfUpdateCompared ==
    /\ UpdateReturned
    /\ job.caller = "self_update"
    /\ job.latest # NoVersion

\* The version self_update is to compare, from the state it was called
\* with: the record of iii-cli if there is one, else the build's version.
ExpectedCurrent ==
    IF SELF_SPEC.name \in DOMAIN obs.pre.mem.binaries
    THEN obs.pre.mem.binaries[SELF_SPEC.name].version
    ELSE CARGO_PKG_VERSION

\* C20: self_update compares the version recorded for iii-cli, or the
\* build's version when there is no record, with the latest release; it
\* returns AlreadyUpToDate, of that version and with no download and no
\* change, exactly when that version is at least the latest; an update it
\* makes is reported as coming from that version.
C20_SelfUpdateCurrentVersion ==
    SelfUpdateCompared =>
        /\ LastResult.kind = "AlreadyUpToDate" <=>
               ~VersionLT(ExpectedCurrent, job.latest)
        /\ LastResult.kind = "AlreadyUpToDate" =>
               /\ LastResult.version = ExpectedCurrent
               /\ job.bin \notin obs.downloads
               /\ job.steps = {}
               /\ binFile[job.bin] = obs.pre.bin
               /\ mem = obs.pre.mem
               /\ stateFile = obs.pre.file
        /\ LastResult.kind = "Updated" =>
               /\ LastResult.from = ExpectedCurrent
               /\ LastResult.to = job.latest

\* C20 witness: iii-cli is recorded at a version above the build's, the
\* latest release is that version, and self_update returned
\* AlreadyUpToDate.
C20_Witness ==
    /\ SelfUpdateCompared
    /\ SELF_SPEC.name \in DOMAIN obs.pre.mem.binaries
    /\ VersionLT(CARGO_PKG_VERSION, ExpectedCurrent)
    /\ job.latest = ExpectedCurrent
    /\ LastResult.kind = "AlreadyUpToDate"

\* self_update without a record of iii-cli updated from the build's version.
C20_WitnessNoRecord ==
    /\ SelfUpdateCompared
    /\ SELF_SPEC.name \notin DOMAIN obs.pre.mem.binaries
    /\ LastResult.kind = "Updated"

(***************************************************************************)
(* state.rs on its own                                                     *)
(***************************************************************************)

InitState == SxInit /\ FsIdle /\ SumIdle /\ MainIdle /\ OvIdle /\ CallIdle
SpecState == InitState /\ [][SxNext]_vars

\* The whole hours since the last completed check of a state.
ElapsedHours(st, t) == t - st.last_update_check

\* The elapsed hours have reached the interval, a u64: one of 2^63 or more
\* (held as a negative number) is reached by no elapsed time.
IntervalReached(st, t) ==
    /\ st.update_check_interval_hours >= 0
    /\ ElapsedHours(st, t) >= st.update_check_interval_hours

\* C21: whatever the interval, a state with no completed check is due; a
\* state just marked as checked is not due; and a state with a completed
\* check is due exactly when the whole hours since that check have reached
\* the interval.
C21_DueExactlyAfterInterval ==
    /\ sx.st.last_update_check = NoCheck => IsUpdateCheckDue(sx.st, sx.clock)
    /\ sx.ops[2] = "mark" => ~IsUpdateCheckDue(sx.st, sx.clock)
    /\ sx.st.last_update_check # NoCheck =>
           (IsUpdateCheckDue(sx.st, sx.clock) <=> IntervalReached(sx.st, sx.clock))

\* A state was saved and the same path was loaded straight after.
SavedThenLoaded == sx.ops = <<"save", "load">>

JustLoaded == sx.ops[2] = "load"

\* load returned the default state.
LoadedDefault == sx.res.ok /\ sx.res.st = DefaultState

\* The file is a well-formed document.
WellFormed == sx.file.kind = "file"

\* A well-formed document that has none of the fields.
OmitsEveryField == WellFormed /\ DOMAIN sx.file.doc = {}

\* A well-formed document in which every field is left out or has the
\* value it would get when left out.
OnlyDefaults ==
    /\ WellFormed
    /\ "binaries" \in DOMAIN sx.file.doc => DOMAIN sx.file.doc.binaries = {}
    /\ "last_update_check" \in DOMAIN sx.file.doc => sx.file.doc.last_update_check = NoCheck
    /\ "update_check_interval_hours" \in DOMAIN sx.file.doc =>
           sx.file.doc.update_check_interval_hours = DefaultInterval

\* Malformed content is a failure, and a field left out gets its default.
LoadFailsOrDefaults ==
    /\ sx.file.kind = "garbage" => ~sx.res.ok
    /\ sx.file.kind # "garbage" => sx.res.ok
    /\ (WellFormed /\ "update_check_interval_hours" \notin DOMAIN sx.file.doc) =>
           sx.res.st.update_check_interval_hours = DefaultInterval
    /\ (WellFormed /\ "last_update_check" \notin DOMAIN sx.file.doc) =>
           sx.res.st.last_update_check = NoCheck
    /\ (WellFormed /\ "binaries" \notin DOMAIN sx.file.doc) =>
           DOMAIN sx.res.st.binaries = {}

\* C23 as stated: load returns the default state exactly when the file is
\* absent or is a well-formed document that omits every field; malformed
\* content is a parse failure; omitted fields get their defaults.
C23_DefaultIffAbsentOrEmpty ==
    JustLoaded =>
        /\ LoadedDefault <=> (sx.file.kind = "absent" \/ OmitsEveryField)
        /\ LoadFailsOrDefaults

\* C23 amended: load returns the default state exactly when the file is
\* absent or is a well-formed document whose every field is omitted or
\* has its default value; malformed content is a parse failure and never
\* a default state; omitted fields get their defaults.
C23_DefaultIffNothingButDefaults ==
    JustLoaded =>
        /\ LoadedDefault <=> (sx.file.kind = "absent" \/ OnlyDefaults)
        /\ LoadFailsOrDefaults

\* C23 witness: a document with only a last check was loaded and got the
\* default interval, without being the default state.
C23_Witness ==
    /\ JustLoaded
    /\ WellFormed
    /\ DOMAIN sx.file.doc = {"last_update_check"}
    /\ sx.res.ok
    /\ sx.res.st.update_check_interval_hours = DefaultInterval
    /\ ~LoadedDefault

(***************************************************************************)
(* The temp file of a write                                                *)
(***************************************************************************)

\* save or atomic_write_binary returns in this step, from its rename: with
\* Ok, or with the rename's error.
ReturnsFromRename(w) ==
    /\ wr[w].pc = "rename"
    /\ wr'[w].pc \in {"done", "renamefailed"}

UnknownTarget ==
    /\ inv.command \notin {None, "self", "iii-cli"}
    /\ ~ResolveBinaryForUpdate(inv.command).ok

\* The setup of the update command failed: no HTTP client, a state file
\* that does not load, no directories, or an unknown target.
UpdateSetupFailed ==
    \/ obs.fault \in {"noclient", "nodirs"}
    \/ obs.loaded = GarbageFile
    \/ UnknownTarget

\* The command of a dispatch is unknown, or its binary does not support
\* the platform.
UnknownOrUnsupported ==
    \/ ~ResolveCommand(inv.command).ok
    \/ ~CheckPlatformSupport(ResolveCommand(inv.command).spec)

\* download_and_install failed for the binary a dispatch was installing.
InstallFailed ==
    /\ job.caller = "dispatch"
    /\ job.ret.kind \in {"DownloadFailed", "Network", "ChecksumMismatch", "ExtractionFailed", "Io"}

\* C25: the update command exits with 1 exactly when its setup failed or
\* some per-binary result is an error, else with 0; a dispatch with an
\* unknown command, an unsupported platform or a failed download,
\* verification or extraction exits with 1 and never hands off.
C25_ExitCodes ==
    /\ (inv.kind = "update" /\ pc = "exit") =>
           obs.exit = (IF UpdateSetupFailed \/ \E k \in 1..Len(results) : IsErr(results[k])
                       THEN 1 ELSE 0)
    /\ (inv.kind = "dispatch" /\ (UnknownOrUnsupported \/ InstallFailed)) =>
           /\ pc \in {"dl_done", "exit"}
           /\ pc = "exit" => obs.exit = 1

\* C25 witness: an update of everything in which one binary was updated
\* and another failed has exited with 1.
C25_Witness ==
    /\ inv.kind = "update" /\ pc = "exit"
    /\ ~UpdateSetupFailed
    /\ \E k \in 1..Len(results) : results[k].kind = "Updated"
    /\ \E k \in 1..Len(results) : IsErr(results[k])
    /\ obs.exit = 1

\* The three ways the setup of a dispatch fails, in the order of the checks.
SetupUnknown == ~ResolveCommand(inv.command).ok
SetupUnsupported ==
    /\ ~SetupUnknown
    /\ ~CheckPlatformSupport(ResolveCommand(inv.command).spec)
SetupNoDirs ==
    /\ ~SetupUnknown /\ ~SetupUnsupported
    /\ obs.fault = "nodirs"

\* C26: a dispatch whose command resolution, platform check or directory
\* creation fails is at its exit with code 1 and has done nothing else: no
\* release, download, scan or advisory request, no load and no save of the
\* state, no install, no handoff; the checks come in this order, so an
\* unsupported platform aborts before the directories are created.
C26_SetupFailureAborts ==
    (inv.kind = "dispatch" /\ (SetupUnknown \/ SetupUnsupported \/ SetupNoDirs)) =>
        /\ pc = "exit" /\ obs.exit = 1
        /\ job = NoJob /\ obs.downloads = {}
        /\ bg = NoBg /\ obs.advisory = "none" /\ obs.delay = 0
        /\ "load" \notin obs.did /\ mem = DefaultState
        /\ stateFile = obs.loaded
        /\ SetupUnknown => obs.did = {}
        /\ SetupUnsupported => obs.did = {"resolve"}
        /\ SetupNoDirs => obs.did = {"resolve", "platform"}

\* C26 witness: a dispatch to a binary that does not support the platform
\* has exited with 1 after the resolution of its command only.
C26_Witness ==
    /\ inv.kind = "dispatch"
    /\ SetupUnsupported
    /\ pc = "exit" /\ obs.exit = 1
    /\ obs.did = {"resolve"}

(***************************************************************************)
(* Which copy a dispatch executes                                          *)
(***************************************************************************)

\* The dispatch got through its setup and looked for its binary.
LookedForBinary == inv.kind = "dispatch" /\ "find" \in obs.did

\* The PATH directories that hold the binary of the dispatch.
DirsWithBinary == {i \in DOMAIN onPath : inv.bin \in onPath[i]}

\* The binaries map is the one the invocation loaded, in memory and in
\* the state file.
BinariesUntouched ==
    /\ mem.binaries = Load(obs.loaded).st.binaries
    /\ Load(stateFile).st.binaries = Load(obs.loaded).st.binaries

\* No release was looked up and nothing was downloaded for an install.
NoInstallAttempt ==
    /\ pc \notin {"d_fetch", "dl", "sum", "extract", "dl_done"}
    /\ job = NoJob
    /\ obs.downloads = {}

\* C27: a dispatch executes the copy in the managed bin directory if there
\* is one; else the copy in the first PATH directory, in order, that holds
\* the binary; else the managed path, after an install that succeeded.
\* Only in the third case is a release looked up or anything downloaded
\* for an install, and in the first two the binaries map stays as loaded.
C27_WhichCopyRuns ==
    LookedForBinary =>
        IF obs.had
        THEN /\ inv.path = "managed"
             /\ NoInstallAttempt /\ BinariesUntouched
        ELSE IF DirsWithBinary # {}
        THEN /\ inv.path = "path"
             /\ inv.dir \in DirsWithBinary
             /\ \A i \in DirsWithBinary : inv.dir <= i
             /\ NoInstallAttempt /\ BinariesUntouched
        ELSE /\ inv.path = "managed"
             /\ (pc \in {"bg", "scan", "advisory", "handoff", "exec"} \/ RunBinaryCalled) =>
                    /\ job.caller = "dispatch" /\ job.ret.kind = "Ok"
                    /\ (pc = "exit" => ~binFile[inv.bin].present)
                    /\ binFile[inv.bin].present =>
                           binFile[inv.bin] = FileContent(inv.bin, job.rel, job.bytes)

\* C27 witness: the binary was not in the managed bin directory but in
\* both PATH directories, and the dispatch executes the copy of the first.
C27_Witness ==
    /\ LookedForBinary
    /\ ~obs.had
    /\ DirsWithBinary = {1, 2}
    /\ inv.path = "path" /\ inv.dir = 1
    /\ pc = "exec"

(***************************************************************************)
(* The update command and its target                                       *)
(***************************************************************************)

\* update_binary has returned, within an update of everything, for a
\* registry binary that was neither on disk nor recorded in the state.
ReturnedForUninstalled ==
    /\ UpdateReturned
    /\ inv.kind = "update" /\ inv.command = None
    /\ job.bin \in RegistryNames
    /\ ~obs.pre.bin.present
    /\ \A i \in DOMAIN onPath : job.bin \notin onPath[i]
    /\ job.bin \notin DOMAIN obs.pre.mem.binaries

\* C28: the update command without a target leaves alone a registry
\* binary that is neither on disk nor recorded in the state: nothing is
\* downloaded for it, nothing is installed and no record is made.
C28_UpdateAllSkipsUninstalled ==
    ReturnedForUninstalled =>
        /\ job.bin \notin obs.downloads
        /\ binFile[job.bin] = obs.pre.bin
        /\ job.bin \notin DOMAIN mem.binaries

\* The registry entries that own a CLI command.
OwnersOf(t) == {i \in 1..Len(REGISTRY) : HasCommand(REGISTRY[i], t)}

\* The binary a target of the update command stands for: iii-cli for
\* 'self' and 'iii-cli', a registry binary for its own name, else the
\* first registry binary that owns the command; "none" for any other.
TargetBinary(t) ==
    IF t \in {"self", "iii-cli"} THEN SELF_SPEC.name
    ELSE IF t \in RegistryNames THEN t
    ELSE IF OwnersOf(t) # {} THEN REGISTRY[MinOf(OwnersOf(t))].name
    ELSE "none"

\* The update command was given a target and its client, state and
\* directories were there.
TargetedUpdate ==
    /\ inv.kind = "update" /\ inv.command # None
    /\ obs.fault = "ok" /\ obs.loaded # GarbageFile

\* The binaries of the results so far, followed by those still to run.
UpdatePlan == [k \in 1..Len(results) |-> results[k].binary] \o tasks

\* C29: a target of 'self' or 'iii-cli' runs self_update only; a registry
\* binary name runs update_binary for that binary; a CLI command runs it
\* for the binary that owns the command, a binary name being looked for
\* first; any other target exits with 1 at once, without a single update,
\* without a stamp of last_update_check and without a save.
C29_UpdateTargetResolution ==
    TargetedUpdate =>
        IF TargetBinary(inv.command) = "none"
        THEN /\ pc = "exit" /\ obs.exit = 1
             /\ results = << >> /\ tasks = << >> /\ job = NoJob
             /\ mem.last_update_check = Load(obs.loaded).st.last_update_check
             /\ stateFile = obs.loaded
        ELSE /\ UpdatePlan = <<TargetBinary(inv.command)>>
             /\ job # NoJob =>
                    /\ job.bin = TargetBinary(inv.command)
                    /\ job.caller = (IF job.bin = SELF_SPEC.name THEN "self_update"
                                     ELSE "update_binary")

\* C29 witness: `iii-cli update create` has updated iii-tools and nothing
\* else.
C29_Witness ==
    /\ TargetedUpdate
    /\ inv.command = "create"
    /\ pc = "exit"
    /\ Len(results) = 1
    /\ results[1].kind = "Updated" /\ results[1].binary = "iii-tools"

(***************************************************************************)
(* The registry and the dispatcher's own spec                              *)
(***************************************************************************)

\* The command names tried against the registry: those it lists, those
\* drawn for a dispatch, and the names of the dispatcher.
CommandNames ==
    UNION {{REGISTRY[i].commands[k].cli_command : k \in 1..Len(REGISTRY[i].commands)} :
              i \in 1..Len(REGISTRY)}
        \cup DispatchCommands \cup {"iii-cli", "self", "update"}

\* C30: the names of the registry entries are pairwise distinct and none
\* is iii-cli; no command resolves to iii-cli, no dispatch runs or
\* installs it, and what walks the registry never comes upon it: in an
\* update of everything iii-cli is the first update only, update_binary is
\* never called for it, and the background scan never asks for it.
C30_SelfNotInRegistry ==
    /\ \A i, j \in 1..Len(REGISTRY) : REGISTRY[i].name = REGISTRY[j].name => i = j
    /\ \A i \in 1..Len(REGISTRY) : REGISTRY[i].name # SELF_SPEC.name
    /\ \A c \in CommandNames :
           ResolveCommand(c).ok => ResolveCommand(c).spec.name # SELF_SPEC.name
    /\ inv.kind = "dispatch" => inv.bin # SELF_SPEC.name
    /\ job.caller \in {"dispatch", "update_binary"} => job.bin # SELF_SPEC.name
    /\ InUpdateAll => \A k \in 2..Len(UpdatePlan) : UpdatePlan[k] # SELF_SPEC.name
    /\ SELF_SPEC.name \notin bg.asked

\* C30 witness: an update of everything has ended with iii-cli updated
\* first and every registry binary after it.
C30_Witness ==
    /\ InUpdateAll
    /\ pc = "exit"
    /\ results[1] = [kind |-> "Updated", binary |-> SELF_SPEC.name,
                     from |-> CARGO_PKG_VERSION, to |-> NextVersionOf(CARGO_PKG_VERSION)]
    /\ {results[k].binary : k \in 2..Len(results)} = RegistryNames

(***************************************************************************)
(* C31: resolve_command                                                    *)
(***************************************************************************)

\* The mappings of command c, as <<place in the registry, place in the
\* entry's list of commands>>.
MappingsOf(c) ==
    {<<i, k>> \in (1..Len(REGISTRY)) \X (1..2) :
        k <= Len(REGISTRY[i].commands) /\ REGISTRY[i].commands[k].cli_command = c}

\* <<i, k>> comes before every other mapping of c in the order the two
\* loops of resolve_command walk the registry.
FirstOf(m, c) ==
    \A n \in MappingsOf(c) : m[1] < n[1] \/ (m[1] = n[1] /\ m[2] <= n[2])

ResolvesAsFirstMapping(c) ==
    LET r == ResolveCommand(c)
    IN IF MappingsOf(c) = {}
       THEN ~r.ok /\ r.error = "UnknownCommand" /\ r.command = c
       ELSE /\ r.ok
            /\ \E m \in MappingsOf(c) :
                  /\ FirstOf(m, c)
                  /\ r.spec = REGISTRY[m[1]]
                  /\ r.sub = REGISTRY[m[1]].commands[m[2]].binary_subcommand

\* C31: resolve_command gives, for a command name, the first registry entry
\* (in registry order) that has a mapping with that CLI command, with that
\* mapping's optional binary subcommand, and fails with UnknownCommand for
\* every name no mapping has: 'console' gives iii-console with no
\* subcommand, 'create' gives iii-tools with subcommand 'create', 'foobar'
\* fails; and a dispatch works on the binary and the subcommand so resolved.
C31_ResolveCommand ==
    /\ \A c \in CommandNames : ResolvesAsFirstMapping(c)
    /\ ResolveCommand("console").ok
    /\ ResolveCommand("console").spec.name = "iii-console"
    /\ ResolveCommand("console").sub = None
    /\ ResolveCommand("create").ok
    /\ ResolveCommand("create").spec.name = "iii-tools"
    /\ ResolveCommand("create").sub = "create"
    /\ ~ResolveCommand("foobar").ok
    /\ ResolveCommand("foobar").error = "UnknownCommand"
    /\ inv.kind = "dispatch" =>
          IF MappingsOf(inv.command) = {}
          THEN pc = "exit" /\ obs.exit = 1 /\ inv.bin = "none"
          ELSE \E m \in MappingsOf(inv.command) :
                  /\ FirstOf(m, inv.command)
                  /\ inv.bin = REGISTRY[m[1]].name
                  /\ inv.sub = REGISTRY[m[1]].commands[m[2]].binary_subcommand

\* A dispatch of 'create' has handed over to iii-tools with the subcommand
\* 'create'.
C31_Witness ==
    /\ inv.kind = "dispatch"
    /\ inv.command = "create"
    /\ pc = "exec"
    /\ inv.bin = "iii-tools"
    /\ inv.sub = "create"

InitCalls == CallInit /\ FsIdle /\ SumIdle /\ MainIdle /\ OvIdle /\ SxIdle
SpecCalls == InitCalls /\ [][CallNext]_vars

(***************************************************************************)
(* C32: check_advisories                                                   *)
(***************************************************************************)

CheckedAdvisories == call.fn = "check_advisories" /\ call.done

\* Version v lies in the range the text writes, read off the text: the
\* operator is one of the comparisons, three numbers follow it, and v
\* compares accordingly with them.
Satisfies(v, text) ==
    /\ Len(text.parts) = 3
    /\ \/ text.op = "<" /\ VersionLT(v, text.parts)
       \/ text.op = "<=" /\ (VersionLT(v, text.parts) \/ v = text.parts)
       \/ text.op = ">" /\ VersionLT(text.parts, v)
       \/ text.op = ">=" /\ (VersionLT(text.parts, v) \/ v = text.parts)
       \/ text.op = "=" /\ v = text.parts

Unparsable(text) == text.op \notin ReqOps \/ Len(text.parts) # 3

\* C32: check_advisories returns an advisory exactly when the state has a
\* record for the advisory's affected binary and the recorded version
\* satisfies the advisory's affected-version range; an advisory never
\* matches a binary with no record in the state, and one whose range cannot
\* be parsed never matches. "<0.2.5" for iii-console matches a recorded
\* 0.2.4 and neither 0.2.5 nor 0.2.6.
C32_AdvisoryMatchesExactly ==
    CheckedAdvisories =>
        \A k \in 1..Len(call.doc) :
            LET a == call.doc[k]
                recorded == a.affected_binary \in DOMAIN call.st.binaries
            IN /\ a.id \in call.ret <=>
                      /\ recorded
                      /\ Satisfies(call.st.binaries[a.affected_binary].version, a.affected_versions)
               /\ ~recorded => a.id \notin call.ret
               /\ Unparsable(a.affected_versions) => a.id \notin call.ret
               /\ (/\ a.affected_binary = "iii-console"
                   /\ a.affected_versions = [op |-> "<", parts |-> <<0, 2, 5>>]
                   /\ recorded)
                  => (a.id \in call.ret <=>
                         call.st.binaries["iii-console"].version = <<0, 2, 4>>)

\* A document of two advisories for recorded binaries was matched: the
\* first, "<0.2.5" against a recorded 0.2.4, is returned, the second, with
\* a range that does not parse, is not.
C32_Witness ==
    /\ CheckedAdvisories
    /\ Len(call.doc) = 2
    /\ call.doc[1].affected_binary = "iii-console"
    /\ call.doc[1].affected_versions = [op |-> "<", parts |-> <<0, 2, 5>>]
    /\ "iii-console" \in DOMAIN call.st.binaries
    /\ call.st.binaries["iii-console"].version = <<0, 2, 4>>
    /\ call.doc[2].affected_binary \in DOMAIN call.st.binaries
    /\ Unparsable(call.doc[2].affected_versions)
    /\ call.ret = {call.doc[1].id}

(***************************************************************************)
(* C33: data_dir and bin_dir                                               *)
(***************************************************************************)

\* C33: for every supported platform and every environment (home
\* directory, data-directory override), bin_dir and data_dir never nest:
\* bin_dir is not equal to or inside data_dir, and data_dir is not equal to
\* or inside bin_dir.
C33_DirsNeverNest ==
    (call.fn = "dirs" /\ call.done) =>
        /\ ~StartsWith(call.bin, call.data)
        /\ ~StartsWith(call.data, call.bin)

\* The same on the platforms other than Windows with no XDG_DATA_HOME that
\* points into the bin directory.
C33_UnixDefaultDirsApart ==
    (/\ call.fn = "dirs"
     /\ call.done
     /\ OsOf(call.env.target) # "windows"
     /\ ~(/\ OsOf(call.env.target) = "linux"
          /\ call.env.xdg_data_home.some
          /\ StartsWith(call.env.xdg_data_home.path, <<"/", "home", "u", ".local", "bin">>)))
    => /\ ~StartsWith(call.bin, call.data)
       /\ ~StartsWith(call.data, call.bin)

C33_WindowsNests ==
    /\ call.fn = "dirs"
    /\ call.done
    /\ OsOf(call.env.target) = "windows"
    /\ call.bin = Join(call.data, "bin")

(***************************************************************************)
(* C34: a failed update leaves the records and the executable alone        *)
(***************************************************************************)

\* update_binary or self_update has just returned for the binary of the
\* last result, and what it returned is an error: the call failed before
\* download_and_install, or download_and_install returned an error.
UpdateCallFailed ==
    /\ inv.kind = "update"
    /\ pc = "u_next"
    /\ results # << >>
    /\ \/ LastResult.kind \in {"UnsupportedPlatform", "Fetch", "VersionParse", "AssetNotFound"}
       \/ job.ret.kind \in {"DownloadFailed", "Network", "ChecksumMismatch",
                            "ExtractionFailed", "Io"}

\* C34: if update_binary or self_update returns an error at any step
\* (unsupported platform, release fetch, tag parse, missing platform asset,
\* download, checksum, extraction, write), the binaries map of the AppState
\* is exactly as before the call, and the result is that error; if the
\* error came before the final write (AssetNotFound comes before any
\* download), the target executable on disk is unchanged too.
C34_FailedUpdateChangesNothing ==
    UpdateCallFailed =>
        /\ IsErr(LastResult)
        /\ mem.binaries = obs.pre.mem.binaries
        /\ "write" \notin job.steps => binFile[LastResult.binary] = obs.pre.bin
        /\ LastResult.kind = "AssetNotFound" =>
               /\ LastResult.binary \notin obs.downloads
               /\ binFile[LastResult.binary] = obs.pre.bin

\* An update of an installed and recorded binary found a newer release
\* without an asset for the platform: AssetNotFound, with the executable
\* and the record as they were.
C34_Witness ==
    /\ UpdateCallFailed
    /\ LastResult.kind = "AssetNotFound"
    /\ obs.pre.bin.present
    /\ LastResult.binary \in DOMAIN obs.pre.mem.binaries
    /\ VersionLT(obs.pre.mem.binaries[LastResult.binary].version, job.latest)

\* download_and_install failed at the write, after the archive had been
\* downloaded and unpacked, for a binary with a record.
C34_WitnessWriteFailed ==
    /\ UpdateCallFailed
    /\ job.ret.kind = "Io"
    /\ job.steps = {"download", "warn", "extract"} \/ job.steps = {"download", "verify", "extract"}

(***************************************************************************)
(* C35: fetch_latest_release                                               *)
(***************************************************************************)

Fetched == call.fn = "fetch_latest_release" /\ call.done

\* C35: fetch_latest_release maps the response as follows: a 2xx status
\* with a parseable body gives the release (tag name and assets); status
\* 403 gives the RateLimited failure; status 404 gives NoReleasesAvailable
\* naming the binary; every other non-2xx status gives a generic
\* RequestFailed network failure; a transport error propagates as a
\* failure; no non-2xx status ever yields a release.
C35_ResponseMapping ==
    Fetched =>
        LET resp == call.resp
            twoxx == 200 <= resp.status /\ resp.status <= 299
        IN /\ ~resp.sent => call.ret.kind = "Reqwest"
           /\ (resp.sent /\ twoxx /\ resp.body_parses) =>
                  /\ call.ret.kind = "Release"
                  /\ call.ret.release.tag.parts = FirstVersion
                  /\ call.ret.release.assets # {}
           /\ (resp.sent /\ resp.status = 403) => call.ret.kind = "RateLimited"
           /\ (resp.sent /\ resp.status = 404) =>
                  call.ret.kind = "NoReleasesAvailable" /\ call.ret.binary = call.bin
           /\ (resp.sent /\ ~twoxx /\ resp.status \notin {403, 404}) =>
                  call.ret.kind = "RequestFailed"
           /\ (resp.sent /\ ~twoxx) => call.ret.kind # "Release"

\* The same, with the generic failure for the other 4xx and 5xx statuses
\* only; and a status that is neither a success nor an error ends in the
\* panic of unwrap_err.
C35_ErrorStatusMapping ==
    Fetched =>
        LET resp == call.resp
            twoxx == 200 <= resp.status /\ resp.status <= 299
        IN /\ ~resp.sent => call.ret.kind = "Reqwest"
           /\ (resp.sent /\ twoxx /\ resp.body_parses) => call.ret.kind = "Release"
           /\ (resp.sent /\ resp.status = 403) => call.ret.kind = "RateLimited"
           /\ (resp.sent /\ resp.status = 404) =>
                  call.ret.kind = "NoReleasesAvailable" /\ call.ret.binary = call.bin
           /\ (resp.sent /\ 400 <= resp.status /\ resp.status <= 599
                         /\ resp.status \notin {403, 404}) =>
                  call.ret.kind = "RequestFailed"
           /\ (resp.sent /\ ~twoxx /\ resp.status < 400) => call.ret.kind = "panic"
           /\ (resp.sent /\ ~twoxx) => call.ret.kind # "Release"

C35_NotModifiedPanics ==
    /\ Fetched
    /\ call.resp.sent
    /\ call.resp.status = 304
    /\ call.ret.kind = "panic"

(***************************************************************************)
(* C36: the handoff is the last step of a dispatch                         *)
(***************************************************************************)

\* The path handle_dispatch resolved exists when run_binary is called.
ResolvedPathExists ==
    IF inv.path = "managed" THEN binFile[inv.bin].present
    ELSE inv.bin \in onPath[inv.dir]

\* What the dispatch has saved, printed and kept in memory.
SavedAndNotified == <<stateFile, binFile, mem, obs.notified, obs.warned, obs.downloads>>

\* C36: the handoff is the last step of a dispatch: run_binary returns
\* BinaryNotFound (exit 1), without flushing or executing anything, when the
\* resolved path does not exist; otherwise stdout and stderr are flushed,
\* in this order, before execution is transferred; every state save and
\* notification of the dispatch happens before the handoff and none after
\* it: neither the step of run_binary nor any step after it changes the
\* state file, the bin directory, the state in memory or what was printed.
C36_HandoffIsLast ==
    [][/\ (pc = "handoff" /\ pc' # "handoff") =>
              /\ IF ResolvedPathExists
                 THEN /\ pc' = "exec"
                      /\ obs'.ran = <<"exists", "flush_stdout", "flush_stderr", "exec">>
                      /\ obs'.exit = obs.exit
                 ELSE /\ pc' = "exit"
                      /\ obs'.ran = <<"exists">>
                      /\ obs'.exit = 1
              /\ SavedAndNotified' = SavedAndNotified
       /\ (inv.kind = "dispatch" /\ pc = "exec") =>
              /\ pc' \in {"exec", "idle"}
              /\ <<stateFile, binFile>>' = <<stateFile, binFile>>
       /\ (inv.kind = "dispatch" /\ pc' \notin {"exec", "exit", "idle"}) => obs'.ran = << >>
      ]_vars

\* A dispatch that installed nothing, notified of an update, saved the
\* state and then handed over after flushing.
C36_Witness ==
    /\ inv.kind = "dispatch"
    /\ pc = "exec"
    /\ obs.ran = <<"exists", "flush_stdout", "flush_stderr", "exec">>
    /\ obs.notified # {}
    /\ stateFile # obs.loaded

\* A dispatch whose resolved path did not exist any more at the handoff:
\* nothing flushed, nothing executed, exit 1.
C36_WitnessNotFound ==
    /\ inv.kind = "dispatch"
    /\ pc = "exit"
    /\ obs.ran = <<"exists">>
    /\ obs.exit = 1
    /\ stateFile # obs.loaded

(***************************************************************************)
(* C37: every update that runs stamps the check                            *)
(***************************************************************************)

\* The update command got past its setup and the resolution of its target
\* and has exited.
UpdateRanToEnd == inv.kind = "update" /\ pc = "exit" /\ ~UpdateSetupFailed

\* The update command is at its per-binary updates.
UpdateRunning ==
    inv.kind = "update" /\ pc \in {"u_next", "u_fetch", "dl", "sum", "extract", "dl_done"}

\* With state st a check is not due from hour t on until the interval has
\* elapsed, and due from then on.
NotDueForInterval(st, t) ==
    \A h \in 0..(2 * TickHours) :
        IsUpdateCheckDue(st, t + h) <=> h >= st.update_check_interval_hours

ReturnedUpdated == UpdateReturned /\ LastResult.kind = "Updated"

\* C38: whenever update_binary or self_update returns Updated {from, to},
\* the state then records for that binary exactly the version `to`, which
\* is the version of the latest release, with the platform's asset name;
\* every other binary's record is what it was before the call; and if from
\* is Some(f), f is the version that was recorded (for self_update, the
\* build's when none was) and to is strictly greater than f: no downgrade
\* of a binary that is present with a recorded version is reported or
\* recorded.
C38_UpdatedRecordsLatest ==
    ReturnedUpdated =>
        LET b == LastResult.binary
            before == obs.pre.mem
        IN /\ b \in DOMAIN mem.binaries
           /\ mem.binaries[b].version = LastResult.to
           /\ LastResult.to = release[b]
           /\ mem.binaries[b].asset_name = <<b, platform, IF platform \in WindowsTargets THEN "zip" ELSE "tar.gz">>
           /\ DOMAIN mem.binaries = DOMAIN before.binaries \cup {b}
           /\ \A n \in DOMAIN before.binaries \ {b} : mem.binaries[n] = before.binaries[n]
           /\ LastResult.from # NoVersion =>
                  /\ VersionLT(LastResult.from, LastResult.to)
                  /\ LastResult.from =
                        IF b \in DOMAIN before.binaries THEN before.binaries[b].version
                        ELSE CARGO_PKG_VERSION
                  /\ b \notin DOMAIN before.binaries => job.caller = "self_update"
           /\ (/\ job.caller = "update_binary"
               /\ b \in DOMAIN before.binaries
               /\ obs.pre.bin.present) =>
                  /\ LastResult.from = before.binaries[b].version
                  /\ VersionLT(before.binaries[b].version, mem.binaries[b].version)

\* An installed and recorded registry binary was updated to a newer
\* release while another binary's record sat in the map.
C38_Witness ==
    /\ ReturnedUpdated
    /\ job.caller = "update_binary"
    /\ obs.pre.bin.present
    /\ LastResult.from = FirstVersion
    /\ LastResult.to = NextVersionOf(FirstVersion)
    /\ DOMAIN obs.pre.mem.binaries \ {LastResult.binary} # {}

(***************************************************************************)
(* C39: updating twice                                                     *)
(***************************************************************************)

\* update_binary or self_update has just returned for a binary after it
\* fetched the latest release and parsed its tag; the state it was given
\* holds for the binary the record an earlier Updated leaves (the version
\* of the latest release, which has not changed since, with the platform's
\* asset name), and the installed file had not been removed.
UpdatedBefore ==
    /\ UpdateReturned
    /\ LastResult.kind \notin {"Fetch", "VersionParse"}
    /\ job.bin \in DOMAIN obs.pre.mem.binaries
    /\ obs.pre.mem.binaries[job.bin].version = release[job.bin]
    /\ obs.pre.mem.binaries[job.bin].asset_name = AssetName(job.bin)
    /\ obs.pre.bin.present

PastBackgroundStart ==
    inv.kind = "dispatch" /\ (pc \in {"scan", "advisory", "handoff", "exec"} \/ RunBinaryCalled)

\* An advisory request was sent, or an advisory warning printed.
AdvisoryActivity == obs.advisory # "none" \/ obs.warned # {} \/ pc = "advisory"

\* C40: in a dispatch the advisory document is fetched and matched only
\* after a background update check has completed within its timeout in the
\* same invocation: when the update check is not due, is disabled, could
\* not start or timed out, no advisory request is sent and no advisory
\* warning is produced; a warning comes only from a document that was
\* fetched, and the update command sends no advisory request.
C40_AdvisoryOnlyAfterCheck ==
    /\ (inv.kind = "dispatch" /\ ~PastBackgroundStart) => ~AdvisoryActivity
    /\ PastBackgroundStart =>
           /\ (\/ inv.no_update_check
               \/ ~IsUpdateCheckDue(obs.pre.mem, now)
               \/ bg.ms >= BackgroundTimeoutMs
               \/ bg.result \in {"disabled", "notdue", "noclient", "timeout", "scanning"})
              => ~AdvisoryActivity
           /\ AdvisoryActivity =>
                  /\ bg.result = "some"
                  /\ bg.todo = {}
                  /\ bg.ms < BackgroundTimeoutMs
                  /\ ~inv.no_update_check
                  /\ IsUpdateCheckDue(obs.pre.mem, now)
           /\ obs.warned # {} => obs.advisory = "ok"
    /\ inv.kind \in {"update", "list"} => ~AdvisoryActivity

\* A dispatch whose background check completed in time fetched the
\* advisories and warned about the recorded iii-console 0.2.4.
C40_Witness ==
    /\ PastBackgroundStart
    /\ bg.result = "some"
    /\ obs.advisory = "ok"
    /\ obs.warned = {"ADV-2026-001"}
    /\ "iii-console" \in DOMAIN mem.binaries
    /\ pc = "exec"

\* A dispatch whose background check was cut at the timeout handed over
\* without an advisory request.
C40_WitnessTimeout ==
    /\ PastBackgroundStart
    /\ bg.result = "timeout"
    /\ obs.advisory = "none"
    /\ pc = "exec"

====
